---- MODULE Spec2Model ----
(***************************************************************************)
(* Knowledge-tree ingestion pipeline (Doc_chunk): the tree patch engine    *)
(* (KnowledgeTreeModifier, append_knowledge_node), the completeness        *)
(* evaluation loop (init_evaluation_chain) and the multi-backend LLM       *)
(* fallback (add_metadata_2_chunk / get_llm_from_list).                    *)
(*                                                                         *)
(* Python strings that the code inspects character by character (paths)    *)
(* are sequences of one-character strings; strings the code only compares  *)
(* or formats (titles, contents) are TLA+ strings.  Optional values and    *)
(* JSON payloads carry a type tag t, because the code branches on          *)
(* `is None` and isinstance.                                               *)
(***************************************************************************)
EXTENDS Integers, Sequences, FiniteSets, TLC

VARIABLES
    \* --- tree patching (KnowledgeTreeModifier / append_knowledge_node) ---
    heap,               \* object store: heap[r] is the tree object with identity r
    modification_count, \* KnowledgeTreeModifier.modification_count
    error_log,          \* KnowledgeTreeModifier.error_log
    patch_pc,           \* "idle" | "modifying" (inside the loop of modify_knowledge_tree)
    last_call,          \* the latest patch call: its arguments, the input as it was, the result
    last_op,            \* the latest operation executed by the modifier: tree before and after
    calls,              \* number of patch calls made so far
    steps,              \* number of patch steps (calls begun, operations applied) so far
    \* --- completeness evaluation loop (init_evaluation_chain) ---
    eva_k_times,        \* configured number of clean passes
    complete_count,     \* clean-pass counter
    new_tree,           \* working tree of the loop
    eva_pc,             \* "loop" | "returned"
    history,            \* the evaluation results received so far, oldest first
    \* --- backend fallback (add_metadata_2_chunk) ---
    setup,              \* setup.yaml as far as get_llm_from_list reads it
    seq,                \* index of the backend to try next
    last_error,         \* last_error of add_metadata_2_chunk
    attempts,           \* the backend executions made so far: <<index, outcome>>
    llm_pc,             \* "loop" | "returned" | "raised"
    outcome,            \* what the call returned or raised
    \* --- chunk generation (gen_knowledge_chunk) ---
    knowledge_trees,    \* state.knowledge_trees, the tree the chunks are made from
    reconciling,        \* TRUE: the gen_knowledge_chunk with the match/judge loop runs
    chunk_list,         \* chunk_list.chunks
    chunk_at,           \* position in chunk_list of the chunk being worked on
    chunk_pc,           \* "start" | "recorrect" | "check" | "returned" | "raised"
    rounds,             \* failed match/judge rounds on the chunk being worked on
    accepted,           \* how each finished chunk left the loop, in order
    \* --- vector store stage (VectorDBManager) ---
    store,              \* the documents in the Chroma collection, in insertion order
    batch_size,         \* vectordb_config.batch_size
    db_run,             \* db_run[p]: the process_state_to_vectordb call of process p
    \* --- folder driver and document pipeline (Write_k_b_from_folder, gen_chunk_graph) ---
    files,              \* the list get_supported_files returned
    file_at,            \* position in files of the file being processed
    node_name,          \* where the processing of that file stands
    graph_result,       \* final_result of gen_chunk_graph
    node_output,        \* what create_chunks_node returned, None before
    process_file_calls, \* the files process_file was called with, in order
    processed,          \* how the processing of each file ended, in order
    \* --- format-insensitive matching (FormatInsensitiveMatcher.contains_match) ---
    match_target,       \* the target of the call
    match_document,     \* the document of the call
    match_pc,           \* "call" before the call, "returned" after it
    match_answer,       \* what contains_match returned
    \* --- the stage whose chain is built and invoked ---
    stage,              \* which stage of the pipeline calls the model
    \* --- CustomEmbeddings._make_request ---
    max_retries,        \* self.max_retries
    attempt,            \* the loop variable of `for attempt in range(max_retries)`
    responses,          \* what each requests.post so far gave
    sleeps,             \* the seconds of each time.sleep so far
    request_pc,         \* idle, loop, returned or raised
    \* --- run_eva_k_iterations (eva_k_worker_V0.1) ---
    state_tree,         \* state.knowledge_trees
    iterations,         \* eva_k_times as run_eva_k_iterations reads it
    iter_i,             \* the counter i of the while loop
    iter_runs,          \* passes of the while loop so far
    iter_pc,            \* idle, loop or returned
    last_batch,         \* the last modification list, the tree patched with it and its statistics
    \* --- gen_chunks_from_folder (app_RAG_general) ---
    is_dir,             \* os.path.isdir(folder_name)
    walk,               \* the paths os.walk yields, in its order
    walk_at,            \* position in walk of the file at hand
    walk_pc,            \* idle, loop, done or exited
    ingested,           \* the gen_single_file_chunks calls so far: the path and how the call ended
    collection,         \* the entries of the Chroma collection, each with the path it came from
    \* --- run_app (app_RAG_V3) ---
    stream_mode,        \* graph_config.stream_mode
    chat_backends,      \* the number of backends configured for RAG_chat_llm
    chat_seq,           \* seq, the index of the backend to try next
    chat_error,         \* last_error, None before the first failure
    chat_pc,            \* idle, start, loop, streaming or done
    yielded             \* what run_app has yielded to its caller so far, in order

patchVars == <<heap, modification_count, error_log, patch_pc, last_call, last_op, calls, steps>>
evalVars  == <<eva_k_times, complete_count, new_tree, eva_pc, history>>
llmVars   == <<setup, seq, last_error, attempts, llm_pc, outcome>>
chunkVars == <<knowledge_trees, reconciling, chunk_list, chunk_at, chunk_pc, rounds, accepted>>
storeVars == <<store, batch_size, db_run>>
folderVars == <<files, file_at, node_name, graph_result, node_output, process_file_calls, processed>>
matchVars == <<match_target, match_document, match_pc, match_answer>>
stageVars == <<stage>>
requestVars == <<max_retries, attempt, responses, sleeps, request_pc>>
iterVars == <<state_tree, iterations, iter_i, iter_runs, iter_pc, last_batch>>
ingestVars == <<is_dir, walk, walk_at, walk_pc, ingested, collection>>
chatVars == <<stream_mode, chat_backends, chat_seq, chat_error, chat_pc, yielded>>
vars      == <<patchVars, evalVars, llmVars, chunkVars, storeVars, folderVars, matchVars, stageVars, requestVars, iterVars, ingestVars, chatVars>>

\* what each part of the program leaves alone
besidesPatch == <<evalVars, llmVars, chunkVars, storeVars, folderVars, matchVars, stageVars, requestVars, iterVars, ingestVars, chatVars>>
besidesEval  == <<patchVars, llmVars, chunkVars, storeVars, folderVars, matchVars, stageVars, requestVars, iterVars, ingestVars, chatVars>>
besidesLlm   == <<patchVars, evalVars, chunkVars, storeVars, folderVars, matchVars, stageVars, requestVars, iterVars, ingestVars, chatVars>>
besidesChunk == <<patchVars, evalVars, llmVars, storeVars, folderVars, matchVars, stageVars, requestVars, iterVars, ingestVars, chatVars>>
besidesStore == <<patchVars, evalVars, llmVars, chunkVars, folderVars, matchVars, stageVars, requestVars, iterVars, ingestVars, chatVars>>
besidesFolder == <<patchVars, evalVars, llmVars, chunkVars, storeVars, matchVars, stageVars, requestVars, iterVars, ingestVars, chatVars>>
besidesMatch == <<patchVars, evalVars, llmVars, chunkVars, storeVars, folderVars, stageVars, requestVars, iterVars, ingestVars, chatVars>>
besidesStage == <<patchVars, evalVars, llmVars, chunkVars, storeVars, folderVars, matchVars, requestVars, iterVars, ingestVars, chatVars>>
besidesRequest == <<patchVars, evalVars, llmVars, chunkVars, storeVars, folderVars, matchVars, stageVars, iterVars, ingestVars, chatVars>>
besidesIter == <<patchVars, evalVars, llmVars, chunkVars, storeVars, folderVars, matchVars, stageVars, requestVars, ingestVars, chatVars>>
besidesIngest == <<patchVars, evalVars, llmVars, chunkVars, storeVars, folderVars, matchVars, stageVars, requestVars, iterVars, chatVars>>
besidesChat == <<patchVars, evalVars, llmVars, chunkVars, storeVars, folderVars, matchVars, stageVars, requestVars, iterVars, ingestVars>>

----------------------------------------------------------------------------
(* Bounds of the model *)

MaxSteps == 4     \* patch steps in one run: calls begun and operations applied
MaxEvals == 4     \* evaluations the evaluator answers in one run
MaxPasses == 2    \* largest configured eva_k_times
MaxBackends == 3  \* longest configured backend list
MaxSeq == 4       \* attempts followed in the fallback loop
MaxRounds == 2    \* failed match/judge rounds followed on one chunk
MaxRuns == 2      \* process_state_to_vectordb calls in one run of the store stage
MaxFiles == 2     \* supported files found in the directory
MaxTextLen == 3   \* characters in the target and in the document of a match
MaxRetries == 5   \* the largest max_retries of CustomEmbeddings
MaxIterRuns == 3  \* passes of the loop of run_eva_k_iterations
MaxBatch == 2     \* operations in one modification list of run_eva_k_iterations
MaxTokens == 2    \* answer pieces that one backend of run_app streams

----------------------------------------------------------------------------
(* Python values *)

None == [t |-> "none"]
List(s) == [t |-> "list", v |-> s]
Str(s) == [t |-> "str", v |-> s]
Dict(items) == [t |-> "dict", items |-> items]     \* items: <<key, value>> pairs in insertion order

IsNone(x) == x.t = "none"

\* bool(x) of a JSON value / an Optional[List]
Truthy(x) ==
    CASE x.t = "none" -> FALSE
      [] x.t = "list" -> Len(x.v) > 0
      [] x.t = "dict" -> Len(x.items) > 0
      [] x.t = "str"  -> x.v # ""

\* dict.get(key, default)
Get(d, key, default) ==
    IF \E i \in 1..Len(d.items) : d.items[i][1] = key
    THEN d.items[CHOOSE i \in 1..Len(d.items) : d.items[i][1] = key][2]
    ELSE default

Ok(x) == [ok |-> TRUE, val |-> x]
Raise(kind, msg) == [ok |-> FALSE, kind |-> kind, msg |-> msg, cause |-> ""]

KnowledgeNode(title, content, children) ==
    [title |-> title, content |-> content, children |-> children]

\* the KnowledgeTree the modifier works on: a single root node
KnowledgeTree(root) == [root |-> root]

KnowledgeNodeContent(title, content, children) ==
    [t |-> "KnowledgeNodeContent", title |-> title, content |-> content, children |-> children]

ModificationOperation(action, path, content) ==
    [action |-> action, path |-> path, content |-> content]

----------------------------------------------------------------------------
(* Character strings: a Python str read character by character *)

root_s == <<"r","o","o","t">>
children_s == <<"c","h","i","l","d","r","e","n">>
title_s == <<"t","i","t","l","e">>
content_s == <<"c","o","n","t","e","n","t">>
chapter_s == <<"c","h","a","p","t","e","r">>
section_s == <<"s","e","c","t","i","o","n">>

DigitChars == <<"0","1","2","3","4","5","6","7","8","9">>
IsDigit(c) == \E i \in 1..Len(DigitChars) : DigitChars[i] = c
DigitVal(c) == (CHOOSE i \in 1..Len(DigitChars) : DigitChars[i] = c) - 1

StartsWith(s, c) == Len(s) > 0 /\ s[1] = c
EndsWith(s, c) == Len(s) > 0 /\ s[Len(s)] = c

RECURSIVE LStrip(_)
LStrip(s) == IF Len(s) > 0 /\ s[1] = " " THEN LStrip(Tail(s)) ELSE s
RECURSIVE RStrip(_)
RStrip(s) == IF Len(s) > 0 /\ s[Len(s)] = " " THEN RStrip(SubSeq(s, 1, Len(s) - 1)) ELSE s

\* the digits of a literal int() accepts, sign removed (the model's paths hold no '_')
Unsigned(s) ==
    LET b == RStrip(LStrip(s))
    IN IF Len(b) > 0 /\ b[1] \in {"+", "-"} THEN Tail(b) ELSE b

\* int(s) does not raise ValueError
IsIntLiteral(s) ==
    LET u == Unsigned(s)
    IN Len(u) > 0 /\ \A i \in 1..Len(u) : IsDigit(u[i])

RECURSIVE DigitsValue(_)
DigitsValue(u) ==
    IF Len(u) = 0 THEN 0
    ELSE 10 * DigitsValue(SubSeq(u, 1, Len(u) - 1)) + DigitVal(u[Len(u)])

\* int(s), for a literal int() accepts
ParseInt(s) ==
    LET b == RStrip(LStrip(s))
        v == DigitsValue(Unsigned(s))
    IN IF Len(b) > 0 /\ b[1] = "-" THEN 0 - v ELSE v

FlushCurrent(parts, current) == IF current # <<>> THEN Append(parts, current) ELSE parts

RECURSIVE ParseFrom(_, _, _, _, _)
ParseFrom(path, i, parts, current, in_brackets) ==
    IF i > Len(path) THEN FlushCurrent(parts, current)
    ELSE LET char == path[i] IN
         IF char = "["
         THEN ParseFrom(path, i + 1, FlushCurrent(parts, current), <<>>, TRUE)
         ELSE IF char = "]"
         THEN IF in_brackets /\ current # <<>>
              THEN ParseFrom(path, i + 1, Append(parts, <<"[">> \o current \o <<"]">>), <<>>, FALSE)
              ELSE ParseFrom(path, i + 1, parts, current, FALSE)
         ELSE IF char = "." /\ ~in_brackets
         THEN ParseFrom(path, i + 1, FlushCurrent(parts, current), <<>>, in_brackets)
         ELSE ParseFrom(path, i + 1, parts, current \o <<char>>, in_brackets)

\* KnowledgeTreeModifier._parse_path
ParsePath(path) == ParseFrom(path, 1, <<>>, <<>>, FALSE)

----------------------------------------------------------------------------
(* Nodes by address: the child indices (from 1) leading down from the root *)

RECURSIVE NodeAt(_, _)
NodeAt(node, addr) ==
    IF addr = <<>> THEN node
    ELSE NodeAt(node.children.v[Head(addr)], Tail(addr))

\* the tree below `node` after an assignment to the node object at addr
RECURSIVE SetNodeAt(_, _, _)
SetNodeAt(node, addr, new) ==
    IF addr = <<>> THEN new
    ELSE [node EXCEPT !.children =
            List([node.children.v EXCEPT
                    ![Head(addr)] = SetNodeAt(node.children.v[Head(addr)], Tail(addr), new)])]

\* `marker in child.title` for the markers of _get_node_by_path: the titles of
\* the model that hold the marker of chapterN / sectionN
TitleHolds(title, key) ==
    \/ key = chapter_s \o <<"1">> /\ title \in {"Chapter1", "Chapter1 Section1"}
    \/ key = chapter_s \o <<"2">> /\ title \in {"Chapter2"}
    \/ key = section_s \o <<"1">> /\ title \in {"Section1", "Chapter1 Section1"}
    \/ key = section_s \o <<"2">> /\ title \in {"Section2"}

RaiseFrom(kind, msg, cause) == [ok |-> FALSE, kind |-> kind, msg |-> msg, cause |-> cause]

RECURSIVE GetNodeFrom(_, _, _, _)
GetNodeFrom(root, parts, k, addr) ==
    IF k > Len(parts) THEN Ok(addr)
    ELSE LET part == parts[k]
             current_node == NodeAt(root, addr)
         IN
         IF part = children_s THEN GetNodeFrom(root, parts, k + 1, addr)
         ELSE IF StartsWith(part, "[") /\ EndsWith(part, "]")
         THEN LET inner == SubSeq(part, 2, Len(part) - 1) IN
              \* every ValueError raised inside the try is re-raised as "Invalid index format"
              IF ~IsIntLiteral(inner)
              THEN RaiseFrom("ValueError", "Invalid index format in path", "invalid literal for int()")
              ELSE LET index == ParseInt(inner) IN
                   IF IsNone(current_node.children)
                   THEN RaiseFrom("ValueError", "Invalid index format in path",
                                  "Node has no children to access index")
                   ELSE IF index < 0 \/ index >= Len(current_node.children.v)
                   THEN RaiseFrom("ValueError", "Invalid index format in path",
                                  "Invalid path: index out of range")
                   ELSE GetNodeFrom(root, parts, k + 1, Append(addr, index + 1))
         ELSE IF part \in {title_s, content_s} THEN Ok(addr)
         ELSE IF IsNone(current_node.children)
         THEN RaiseFrom("ValueError", "Node has no children to access key", "")
         ELSE LET kids == current_node.children.v
                  hits == {i \in 1..Len(kids) : TitleHolds(kids[i].title, part)}
              IN IF hits = {}
                 THEN RaiseFrom("ValueError", "Cannot find child node for key", "")
                 ELSE GetNodeFrom(root, parts, k + 1,
                                  Append(addr, CHOOSE i \in hits : \A j \in hits : i <= j))

\* KnowledgeTreeModifier._get_node_by_path: the address of the node, or the error raised
GetNodeByPath(tree, path_parts) == GetNodeFrom(tree.root, path_parts, 2, <<>>)

----------------------------------------------------------------------------
(* Building nodes from a payload *)

IsDictItem(item) == item[2].t = "dict"

FirstFailure(made) ==
    made[CHOOSE i \in DOMAIN made : ~made[i].ok /\ \A j \in DOMAIN made : ~made[j].ok => i <= j]

\* _create_node_from_content, the isinstance(content, dict) branch and the final else
RECURSIVE CreateNodeFromDict(_)
CreateNodeFromDict(content) ==
    IF content.t # "dict"
    THEN Raise("ValueError", "Content must be a KnowledgeNodeContent or dictionary for node creation")
    ELSE LET title == Get(content, "title", Str(""))
             node_content == Get(content, "content", Str(""))
             children_data == Get(content, "children", None)
             from == IF ~Truthy(children_data) THEN <<>>
                     ELSE IF children_data.t = "list" THEN children_data.v
                     ELSE IF children_data.t = "dict"
                     THEN LET kept == SelectSeq(children_data.items, IsDictItem)
                          IN [i \in 1..Len(kept) |-> kept[i][2]]
                     ELSE <<>>
             made == [i \in 1..Len(from) |-> CreateNodeFromDict(from[i])]
             children == IF Truthy(children_data) /\ children_data.t \in {"list", "dict"}
                         THEN List([i \in 1..Len(from) |-> made[i].val])
                         ELSE None
         IN IF \E i \in 1..Len(from) : ~made[i].ok THEN FirstFailure(made)
            ELSE IF title.t # "str" \/ node_content.t # "str"
            THEN Raise("ValidationError", "KnowledgeNode: Input should be a valid string")
            ELSE Ok(KnowledgeNode(title.v, node_content.v, children))

\* _create_node_from_content, for a KnowledgeNodeContent
CreateNodeFromContent(content) ==
    LET from == IF Truthy(content.children) THEN content.children.v ELSE <<>>
        made == [i \in 1..Len(from) |-> CreateNodeFromDict(from[i])]
        children == IF Truthy(content.children)
                    THEN List([i \in 1..Len(from) |-> made[i].val])
                    ELSE None
    IN IF \E i \in 1..Len(from) : ~made[i].ok THEN FirstFailure(made)
       ELSE Ok(KnowledgeNode(content.title, content.content, children))

\* repr() of a JSON value
RECURSIVE PyRepr(_)
PyRepr(x) ==
    CASE x.t = "none" -> "None"
      [] x.t = "str"  -> "'" \o x.v \o "'"
      [] x.t = "list" ->
            LET joined[i \in 0..Len(x.v)] ==
                    IF i = 0 THEN ""
                    ELSE IF i = 1 THEN PyRepr(x.v[1])
                    ELSE joined[i - 1] \o ", " \o PyRepr(x.v[i])
            IN "[" \o joined[Len(x.v)] \o "]"
      [] x.t = "dict" ->
            LET joined[i \in 0..Len(x.items)] ==
                    IF i = 0 THEN ""
                    ELSE (IF i = 1 THEN "" ELSE joined[i - 1] \o ", ")
                         \o "'" \o x.items[i][1] \o "': " \o PyRepr(x.items[i][2])
            IN "{" \o joined[Len(x.items)] \o "}"

\* str(content) of a KnowledgeNodeContent (pydantic's field-by-field repr)
StrOfContent(content) ==
    "title=" \o PyRepr(Str(content.title)) \o " content=" \o PyRepr(Str(content.content))
        \o " children=" \o PyRepr(content.children)

----------------------------------------------------------------------------
(* KnowledgeTreeModifier: one operation on the working copy.  An operation  *)
(* yields the tree as it leaves it and whether it returned or raised.       *)

Returned(tree) == [tree |-> tree, status |-> Ok(None)]
Raised(tree, error) == [tree |-> tree, status |-> error]

\* `if node.children is None: node.children = []`
EnsureChildren(node) ==
    IF IsNone(node.children) THEN [node EXCEPT !.children = List(<<>>)] ELSE node

\* the new node put first instead of last
PrependChild(node, new_node) ==
    [node EXCEPT !.children = List(<<new_node>> \o node.children.v)]

\* node.children.append(new_node)
AppendChild(node, new_node) ==
    [node EXCEPT !.children = List(Append(node.children.v, new_node))]

\* _get_parent_node
GetParentNode(tree, path_parts) ==
    IF Len(path_parts) <= 2 THEN Ok(<<>>)
    ELSE GetNodeByPath(tree, SubSeq(path_parts, 1, Len(path_parts) - 1))

\* _add_node
AddNode(tree, target_path, content) ==
    IF IsNone(content)
    THEN Raised(tree, Raise("ValueError", "Content cannot be None for add operation"))
    ELSE LET path_parts == ParsePath(target_path)
             parent == IF Len(path_parts) = 2 /\ path_parts[2] = children_s
                       THEN Ok(<<>>)
                       ELSE GetParentNode(tree, path_parts)
         IN IF ~parent.ok THEN Raised(tree, parent)
            ELSE LET parent_node == EnsureChildren(NodeAt(tree.root, parent.val))
                     ensured == KnowledgeTree(SetNodeAt(tree.root, parent.val, parent_node))
                     new_node == CreateNodeFromContent(content)
                 IN IF ~new_node.ok THEN Raised(ensured, new_node)
                    ELSE Returned(KnowledgeTree(
                            SetNodeAt(tree.root, parent.val, AppendChild(parent_node, new_node.val))))

IsIndexPart(part) == StartsWith(part, "[") /\ EndsWith(part, "]")

\* _get_parent_and_index: <<address of the parent, index>> or the error raised
GetParentAndIndex(tree, path_parts) ==
    IF \A i \in 1..Len(path_parts) : ~IsIndexPart(path_parts[i])
    THEN Raise("ValueError", "No index found in path for deletion")
    ELSE LET i == CHOOSE k \in 1..Len(path_parts) :
                      IsIndexPart(path_parts[k]) /\ \A j \in 1..(k - 1) : ~IsIndexPart(path_parts[j])
             inner == SubSeq(path_parts[i], 2, Len(path_parts[i]) - 1)
         IN IF ~IsIntLiteral(inner)
            THEN Raise("ValueError", "invalid literal for int()")
            ELSE LET parent_node == GetNodeByPath(tree, SubSeq(path_parts, 1, i - 1))
                 IN IF ~parent_node.ok THEN parent_node
                    ELSE Ok(<<parent_node.val, ParseInt(inner)>>)

\* list.pop(index), index from 0
Pop(list, index) == SubSeq(list, 1, index) \o SubSeq(list, index + 2, Len(list))

\* _delete_node
DeleteNode(tree, target_path) ==
    LET path_parts == ParsePath(target_path) IN
    IF Len(path_parts) < 3
    THEN Raised(tree, Raise("ValueError", "Cannot delete root node"))
    ELSE LET found == GetParentAndIndex(tree, path_parts) IN
         IF ~found.ok THEN Raised(tree, found)
         ELSE LET parent_node == NodeAt(tree.root, found.val[1])
                  index == found.val[2]
              IN IF Truthy(parent_node.children) /\ 0 <= index
                        /\ index < Len(parent_node.children.v)
                 THEN LET rest == Pop(parent_node.children.v, index)
                          after == [parent_node EXCEPT !.children =
                                        IF Len(rest) = 0 THEN None ELSE List(rest)]
                      IN Returned(KnowledgeTree(SetNodeAt(tree.root, found.val[1], after)))
                 ELSE Raised(tree, Raise("ValueError", "Invalid index for deletion"))

\* _get_target_node_and_attribute: <<address of the node, attribute>> or the error raised
GetTargetNodeAndAttribute(tree, path_parts) ==
    IF Len(path_parts) = 0
    THEN Raise("IndexError", "list index out of range")
    ELSE IF path_parts[Len(path_parts)] \in {title_s, content_s, children_s}
    THEN LET node == GetNodeByPath(tree, SubSeq(path_parts, 1, Len(path_parts) - 1))
         IN IF ~node.ok THEN node ELSE Ok(<<node.val, path_parts[Len(path_parts)]>>)
    ELSE LET node == GetNodeByPath(tree, path_parts)
         IN IF ~node.ok THEN node ELSE Ok(<<node.val, content_s>>)

\* _modify_node; the content of an operation is a KnowledgeNodeContent or None
ModifyNode(tree, target_path, content) ==
    IF IsNone(content)
    THEN Raised(tree, Raise("ValueError", "Content cannot be None for modify operation"))
    ELSE LET path_parts == ParsePath(target_path)
             target == GetTargetNodeAndAttribute(tree, path_parts)
         IN IF ~target.ok THEN Raised(tree, target)
            ELSE LET target_node == NodeAt(tree.root, target.val[1])
                     attribute == target.val[2]
                 IN IF attribute = title_s
                    THEN Returned(KnowledgeTree(SetNodeAt(tree.root, target.val[1],
                            [target_node EXCEPT !.title = StrOfContent(content)])))
                    ELSE IF attribute = content_s
                    THEN Returned(KnowledgeTree(SetNodeAt(tree.root, target.val[1],
                            [target_node EXCEPT !.content = StrOfContent(content)])))
                    ELSE Raised(tree, Raise("ValueError", "Children content must be a list or None"))

\* _execute_action
ExecuteAction(tree, operation) ==
    IF Len(operation.path) = 0
    THEN Raised(tree, Raise("ValueError", "Missing path in operation"))
    ELSE IF operation.action = "add" THEN AddNode(tree, operation.path, operation.content)
    ELSE IF operation.action = "del" THEN DeleteNode(tree, operation.path)
    ELSE IF operation.action = "modify" THEN ModifyNode(tree, operation.path, operation.content)
    ELSE Raised(tree, Raise("ValueError", "Unknown action"))

\* the count incremented whether or not the action raised
AccountCountingAll(run, done, i) ==
    IF done.status.ok
    THEN [run EXCEPT !.tree = done.tree, !.modification_count = @ + 1]
    ELSE [run EXCEPT !.tree = done.tree, !.modification_count = @ + 1,
                     !.error_log = Append(@, [operation |-> i, error |-> done.status])]

\* the try block's end and the except clause: count the success or log the error
Account(run, done, i) ==
    IF done.status.ok
    THEN [run EXCEPT !.tree = done.tree, !.modification_count = @ + 1]
    ELSE [run EXCEPT !.tree = done.tree,
                     !.error_log = Append(@, [operation |-> i, error |-> done.status])]

\* one pass of the loop of modify_knowledge_tree, on operation number i (from 1)
ApplyOperation(run, operation, i) ==
    IF operation.action = "none" THEN run
    ELSE Account(run, ExecuteAction(run.tree, operation), i)

RECURSIVE ApplyAll(_, _, _)
ApplyAll(run, modification_list, i) ==
    IF i > Len(modification_list) THEN run
    ELSE ApplyAll(ApplyOperation(run, modification_list[i], i), modification_list, i + 1)

\* modify_knowledge_tree after the deepcopy: the statistics reset, then every operation in order
RunModifications(modification_list, modified_tree) ==
    ApplyAll([tree |-> modified_tree, modification_count |-> 0, error_log |-> <<>>],
             modification_list, 1)

\* get_modification_stats
GetModificationStats(count, log) ==
    [total_modifications |-> count, errors |-> log, success |-> Len(log) = 0]

----------------------------------------------------------------------------
(* append_knowledge_node, on the KnowledgeTree with title/content/children  *)
(* (src/Utils/graph_state.py); target_path is a list of titles.             *)

\* stands for the literal prefix of the content given to a node created on the way
AutoCreatedContent(path_segment) == "auto-created node: " \o path_segment

FirstChildTitled(node, path_segment) ==
    LET kids == node.children.v
        hits == {i \in 1..Len(kids) : kids[i].title = path_segment}
    IN IF hits = {} THEN 0 ELSE CHOOSE i \in hits : \A j \in hits : i <= j

\* the for loop of append_knowledge_node from position `level` (from 0) on, then
\* the statements after it; current is the address of current_node
RECURSIVE AppendFrom(_, _, _, _, _)
AppendFrom(tree, target_path, level, current, new_node) ==
    IF level >= Len(target_path)
    THEN SetNodeAt(tree, current, AppendChild(EnsureChildren(NodeAt(tree, current)), new_node))
    ELSE LET path_segment == target_path[level + 1]
             current_node == EnsureChildren(NodeAt(tree, current))
             ensured == SetNodeAt(tree, current, current_node)
             hit == FirstChildTitled(current_node, path_segment)
         IN IF level = 0 /\ current_node.title = path_segment
            THEN AppendFrom(ensured, target_path, level + 1, current, new_node)
            ELSE IF hit # 0
            THEN AppendFrom(ensured, target_path, level + 1, Append(current, hit), new_node)
            ELSE IF level = Len(target_path) - 1
            THEN SetNodeAt(ensured, current, AppendChild(current_node, new_node))
            ELSE LET new_parent == KnowledgeNode(path_segment, AutoCreatedContent(path_segment),
                                                 List(<<>>))
                     grown == AppendChild(current_node, new_parent)
                 IN AppendFrom(SetNodeAt(ensured, current, grown), target_path, level + 1,
                               Append(current, Len(grown.children.v)), new_node)

\* append_knowledge_node after the deep copy
AppendKnowledgeNodeTo(copied, target_path, new_node) ==
    AppendFrom(EnsureChildren(copied), target_path, 0, <<>>, new_node)

----------------------------------------------------------------------------
(* Object identity: deepcopy / model_copy(deep=True) make a new object      *)

\* aliasing instead of copying: the "copy" is the object itself
DeepCopyAlias(h, r) == [heap |-> h, ref |-> r]

\* deepcopy(knowledge_tree), tree.model_copy(deep=True)
DeepCopy(h, r) == [heap |-> Append(h, h[r]), ref |-> Len(h) + 1]

----------------------------------------------------------------------------
(* Inputs of the patch engine *)

Leaf(title) == KnowledgeNode(title, title \o " text", None)

\* the tree of test_path_validation.py (setUp)
TestTree ==
    KnowledgeTree(KnowledgeNode("Root", "Root text", List(<<
        KnowledgeNode("Chapter1", "Chapter1 text", List(<<Leaf("Section1"), Leaf("Section2")>>)),
        Leaf("Chapter2")>>)))

\* a root with three leaves [A, B, C]
ThreeLeafTree ==
    KnowledgeTree(KnowledgeNode("Root", "Root text", List(<<Leaf("A"), Leaf("B"), Leaf("C")>>)))

\* a root without children
BareTree == KnowledgeTree(KnowledgeNode("Root", "Root text", None))

InputTrees == {TestTree, ThreeLeafTree, BareTree}

\* a tree in the title/content/children form, for append_knowledge_node
InputFlatTree ==
    KnowledgeNode("Doc", "Doc text", List(<<
        KnowledgeNode("General", "General text", List(<<Leaf("Article1")>>)),
        Leaf("Article2")>>))

IndexPart(digits) == <<"[">> \o digits \o <<"]">>
Dotted(path, name) == path \o <<".">> \o name
ChildrenOf(path) == Dotted(path, children_s)
ChildAt(path, digits) == ChildrenOf(path) \o IndexPart(digits)

PlainPayload == KnowledgeNodeContent("New", "New text", None)
\* a payload with one child dict
NestedPayload ==
    KnowledgeNodeContent("Part", "Part text",
        List(<<Dict(<< <<"title", Str("Item")>>, <<"content", Str("Item text")>> >>)>>))
\* a payload that passes the model's validation (children: List[Dict[str, Any]]) and
\* holds a grandchild that is no dict
MalformedPayload ==
    KnowledgeNodeContent("Bad", "Bad text",
        List(<<Dict(<< <<"title", Str("Item")>>, <<"children", List(<<Str("x")>>)>> >>)>>))

InputPayloads == {PlainPayload, NestedPayload, MalformedPayload}

AddPaths ==
    { ChildrenOf(root_s),
      ChildrenOf(ChildAt(root_s, <<"0">>)),
      ChildrenOf(ChildAt(ChildAt(root_s, <<"0">>), <<"1">>)),
      ChildrenOf(ChildAt(root_s, <<"5">>)),
      ChildrenOf(Dotted(root_s, chapter_s \o <<"1">>)) }

DelPaths ==
    { ChildAt(root_s, <<"1">>),
      ChildAt(root_s, <<"0">>),
      ChildAt(ChildAt(root_s, <<"0">>), <<"1">>),
      ChildAt(ChildAt(root_s, <<"0">>), <<"7">>),
      ChildAt(root_s, <<"7">>),
      ChildAt(root_s, <<"-","1">>),
      ChildAt(root_s, <<"a","b","c">>) }

ModifyPaths ==
    { ChildAt(root_s, <<"0">>),
      Dotted(ChildAt(root_s, <<"0">>), title_s),
      Dotted(ChildAt(ChildAt(root_s, <<"0">>), <<"0">>), content_s),
      Dotted(ChildAt(root_s, <<"5">>), content_s),
      ChildrenOf(ChildAt(root_s, <<"0">>)) }

InputOperations ==
    {ModificationOperation("add", path, PlainPayload) : path \in AddPaths}
    \cup {ModificationOperation("add", ChildrenOf(ChildAt(root_s, <<"0">>)), NestedPayload),
          ModificationOperation("add", ChildrenOf(ChildAt(root_s, <<"1">>)), MalformedPayload),
          ModificationOperation("add", ChildrenOf(root_s), None)}
    \cup {ModificationOperation("del", path, None) : path \in DelPaths}
    \cup {ModificationOperation("modify", path, PlainPayload) : path \in ModifyPaths}
    \cup {ModificationOperation("modify", ChildAt(root_s, <<"1">>), NestedPayload),
          ModificationOperation("none", root_s, None)}

AppendPaths ==
    { <<>>, <<"Doc">>, <<"Doc", "General">>, <<"General", "Article1">>,
      <<"Doc", "Annex", "Article9">> }

AppendNodes == {Leaf("Article5")}

----------------------------------------------------------------------------
(* The patch engine as a state machine *)

IsRootForm(tree) == "root" \in DOMAIN tree

NoCall == [kind |-> "none"]

\* KnowledgeTreeModifier() and the trees the caller holds
InitPatch ==
    /\ \E tree \in InputTrees : heap = <<tree, InputFlatTree>>
    /\ modification_count = 0
    /\ error_log = <<>>
    /\ patch_pc = "idle"
    /\ last_call = NoCall
    /\ last_op = None
    /\ calls = 0
    /\ steps = 0
    \* the evaluation loop and the fallback are not running
    /\ eva_k_times = 0
    /\ complete_count = 0
    /\ new_tree = None
    /\ eva_pc = "idle"
    /\ history = <<>>
    /\ setup = None
    /\ seq = 0
    /\ last_error = None
    /\ attempts = <<>>
    /\ llm_pc = "idle"
    /\ outcome = None
    /\ knowledge_trees = None
    /\ reconciling = FALSE
    /\ chunk_list = <<>>
    /\ chunk_at = 0
    /\ chunk_pc = "idle"
    /\ rounds = 0
    /\ accepted = <<>>
    /\ store = <<>>
    /\ batch_size = 0
    /\ db_run = <<>>
    /\ files = <<>>
    /\ file_at = 0
    /\ node_name = "idle"
    /\ graph_result = FALSE
    /\ node_output = None
    /\ process_file_calls = <<>>
    /\ processed = <<>>
    /\ match_target = <<>>
    /\ match_document = <<>>
    /\ match_pc = "idle"
    /\ match_answer = FALSE
    /\ stage = "none"
    /\ max_retries = 0
    /\ attempt = 0
    /\ responses = <<>>
    /\ sleeps = <<>>
    /\ request_pc = "idle"
    /\ state_tree = None
    /\ iterations = 0
    /\ iter_i = 0
    /\ iter_runs = 0
    /\ iter_pc = "idle"
    /\ last_batch = None
    /\ is_dir = FALSE
    /\ walk = <<>>
    /\ walk_at = 0
    /\ walk_pc = "idle"
    /\ ingested = <<>>
    /\ collection = <<>>
    /\ stream_mode = FALSE
    /\ chat_backends = 0
    /\ chat_seq = 0
    /\ chat_error = None
    /\ chat_pc = "idle"
    /\ yielded = <<>>

\* modify_knowledge_tree up to the loop: the deep copy and the reset of the statistics
BeginModify(r) ==
    /\ patch_pc = "idle"
    /\ steps < MaxSteps
    /\ IsRootForm(heap[r])
    /\ LET copy == DeepCopy(heap, r) IN
         /\ heap' = copy.heap
         /\ last_call' = [kind |-> "modify", arg |-> r, before |-> heap[r],
                          input |-> <<>>, result |-> copy.ref, returned |-> FALSE,
                          failed |-> {}]
    /\ modification_count' = 0
    /\ error_log' = <<>>
    /\ patch_pc' = "modifying"
    /\ last_op' = None
    /\ calls' = calls + 1
    /\ steps' = steps + 1
    /\ UNCHANGED besidesPatch

\* one pass of the loop of modify_knowledge_tree, on the next operation of the list
ApplyNext(operation) ==
    /\ patch_pc = "modifying"
    /\ steps < MaxSteps
    /\ \E done \in (IF operation.action = "none" THEN {Returned(heap[last_call.result])}
                    ELSE {ExecuteAction(heap[last_call.result], operation)}) :
       \E after \in {IF operation.action = "none"
                     THEN [tree |-> heap[last_call.result],
                           modification_count |-> modification_count,
                           error_log |-> error_log]
                     ELSE Account([tree |-> heap[last_call.result],
                                   modification_count |-> modification_count,
                                   error_log |-> error_log],
                                  done, Len(last_call.input) + 1)} :
          /\ heap' = [heap EXCEPT ![last_call.result] = after.tree]
          /\ modification_count' = after.modification_count
          /\ error_log' = after.error_log
          /\ last_op' = [t |-> "op", operation |-> operation,
                         before |-> heap[last_call.result], after |-> after.tree,
                         raised |-> Len(after.error_log) > Len(error_log)]
          /\ last_call' = [last_call EXCEPT
                             !.input = Append(@, operation),
                             !.failed = IF done.status.ok THEN @
                                        ELSE @ \cup {Len(last_call.input) + 1}]
    /\ steps' = steps + 1
    /\ UNCHANGED <<patch_pc, calls, besidesPatch>>

\* the end of the list: return modified_tree
ReturnModified ==
    /\ patch_pc = "modifying"
    /\ patch_pc' = "idle"
    /\ last_call' = [last_call EXCEPT !.returned = TRUE]
    /\ UNCHANGED <<heap, modification_count, error_log, last_op, calls, steps, besidesPatch>>

\* append_knowledge_node(tree, target_path, new_node)
AppendKnowledgeNode(r, target_path, new_node) ==
    /\ patch_pc = "idle"
    /\ steps < MaxSteps
    /\ ~IsRootForm(heap[r])
    /\ LET copy == DeepCopy(heap, r) IN
         /\ heap' = [copy.heap EXCEPT ![copy.ref] =
                        AppendKnowledgeNodeTo(copy.heap[copy.ref], target_path, new_node)]
         /\ last_call' = [kind |-> "append", arg |-> r, before |-> heap[r],
                          input |-> <<target_path, new_node>>, result |-> copy.ref,
                          returned |-> TRUE]
    /\ calls' = calls + 1
    /\ steps' = steps + 1
    /\ UNCHANGED <<modification_count, error_log, patch_pc, last_op, besidesPatch>>

----------------------------------------------------------------------------
(* init_evaluation_chain: the completeness evaluation loop *)

Point(title, content, path) == [t |-> "point", title |-> title, content |-> content, path |-> path]

InputPoints ==
    { Point("Article5", "Article5 text", <<"Doc", "General">>),
      Point("Article7", "Article7 text", <<"Annex", "Article7">>) }

\* what the parser hands back for one evaluation: a dict with status and point
EvaluationResults ==
    [status : {"complete", "incomplete"},
     point : {None, List(<<>>)} \cup InputPoints
             \cup {List(<<p, q>>) : p \in InputPoints, q \in InputPoints}]

\* bool(final_result.get('point'))
PointGiven(point) ==
    CASE point.t = "none" -> FALSE
      [] point.t = "list" -> Len(point.v) > 0
      [] point.t = "point" -> TRUE

\* the for loop over nodes: every point appended to the working tree in turn
RECURSIVE AppendPoints(_, _)
AppendPoints(tree, nodes) ==
    IF Len(nodes) = 0 THEN tree
    ELSE LET node == Head(nodes)
             new_node == KnowledgeNode(node.title, node.content, None)
         IN AppendPoints(AppendKnowledgeNodeTo(tree, node.path, new_node), Tail(nodes))

\* the configuration read and the statements before the while loop
InitEval ==
    /\ eva_k_times \in 0..MaxPasses
    /\ complete_count = 0
    /\ new_tree = InputFlatTree
    /\ eva_pc = "loop"
    /\ history = <<>>
    \* the patch engine and the fallback are not running
    /\ heap = <<>>
    /\ modification_count = 0
    /\ error_log = <<>>
    /\ patch_pc = "idle"
    /\ last_call = NoCall
    /\ last_op = None
    /\ calls = 0
    /\ steps = 0
    /\ setup = None
    /\ seq = 0
    /\ last_error = None
    /\ attempts = <<>>
    /\ llm_pc = "idle"
    /\ outcome = None
    /\ knowledge_trees = None
    /\ reconciling = FALSE
    /\ chunk_list = <<>>
    /\ chunk_at = 0
    /\ chunk_pc = "idle"
    /\ rounds = 0
    /\ accepted = <<>>
    /\ store = <<>>
    /\ batch_size = 0
    /\ db_run = <<>>
    /\ files = <<>>
    /\ file_at = 0
    /\ node_name = "idle"
    /\ graph_result = FALSE
    /\ node_output = None
    /\ process_file_calls = <<>>
    /\ processed = <<>>
    /\ match_target = <<>>
    /\ match_document = <<>>
    /\ match_pc = "idle"
    /\ match_answer = FALSE
    /\ stage = "none"
    /\ max_retries = 0
    /\ attempt = 0
    /\ responses = <<>>
    /\ sleeps = <<>>
    /\ request_pc = "idle"
    /\ state_tree = None
    /\ iterations = 0
    /\ iter_i = 0
    /\ iter_runs = 0
    /\ iter_pc = "idle"
    /\ last_batch = None
    /\ is_dir = FALSE
    /\ walk = <<>>
    /\ walk_at = 0
    /\ walk_pc = "idle"
    /\ ingested = <<>>
    /\ collection = <<>>
    /\ stream_mode = FALSE
    /\ chat_backends = 0
    /\ chat_seq = 0
    /\ chat_error = None
    /\ chat_pc = "idle"
    /\ yielded = <<>>

\* one pass of the while loop: an evaluation and what the loop does with its result
Evaluate(final_result) ==
    /\ eva_pc = "loop"
    /\ complete_count < eva_k_times
    /\ Len(history) < MaxEvals
    /\ IF final_result.status = "incomplete" /\ PointGiven(final_result.point)
       THEN LET nodes == IF final_result.point.t = "list" THEN final_result.point.v
                         ELSE <<final_result.point>>
            IN /\ new_tree' = AppendPoints(new_tree, nodes)
               /\ complete_count' = 0
       ELSE /\ complete_count' = complete_count + 1
            /\ UNCHANGED new_tree
    /\ history' = Append(history, [status |-> final_result.status,
                                   given |-> PointGiven(final_result.point),
                                   point |-> final_result.point])
    /\ UNCHANGED <<eva_k_times, eva_pc, besidesEval>>

\* the loop condition fails: return new_tree
ReturnTree ==
    /\ eva_pc = "loop"
    /\ complete_count >= eva_k_times
    /\ eva_pc' = "returned"
    /\ UNCHANGED <<eva_k_times, complete_count, new_tree, history, besidesEval>>

----------------------------------------------------------------------------
(* add_metadata_2_chunk over get_llm_from_list: the backend fallback *)

BackendNames == <<"llm_a", "llm_b", "llm_c", "llm_d">>

\* setup.yaml as get_llm_from_list reads it: graph_config[type] present or not, a list
\* or a single name, and the names that have a parameter section of their own
Setups ==
    { [has_key |-> k, is_list |-> l, names |-> SubSeq(BackendNames, 1, n), sections |-> s] :
        k \in BOOLEAN, l \in BOOLEAN, n \in 0..MaxBackends,
        s \in SUBSET {BackendNames[i] : i \in 1..MaxBackends} }

ValidSetup(c) ==
    /\ c.sections \subseteq {c.names[i] : i \in 1..Len(c.names)}
    /\ ~c.is_list => Len(c.names) = 1
    /\ ~c.has_key => (c.is_list /\ c.names = <<>>)

Error(kind, at) == [t |-> "error", kind |-> kind, at |-> at]

\* get_llm_from_list(type, seq): the name of the backend built, or the error raised
GetLlmFromList(c, n) ==
    IF ~c.has_key THEN Raise("KeyError", "graph_config")
    ELSE IF c.is_list /\ n >= Len(c.names) THEN Raise("IndexError", "seq out of range")
    ELSE IF ~c.is_list /\ n # 0 THEN Raise("IndexError", "seq invalid for a single name")
    ELSE LET llm_name == c.names[n + 1]
         IN IF llm_name \notin c.sections THEN Raise("KeyError", llm_name)
            ELSE Ok(llm_name)

\* what executing the chain on a backend can do: return a result, raise some
\* exception, or raise an IndexError of its own
InvokeOutcomes == {"result", "Exception", "IndexError"}

InitLlm ==
    /\ setup \in {c \in Setups : ValidSetup(c)}
    /\ seq = 0
    /\ last_error = None
    /\ attempts = <<>>
    /\ llm_pc = "loop"
    /\ outcome = None
    \* the patch engine and the evaluation loop are not running
    /\ heap = <<>>
    /\ modification_count = 0
    /\ error_log = <<>>
    /\ patch_pc = "idle"
    /\ last_call = NoCall
    /\ last_op = None
    /\ calls = 0
    /\ steps = 0
    /\ eva_k_times = 0
    /\ complete_count = 0
    /\ new_tree = None
    /\ eva_pc = "idle"
    /\ history = <<>>
    /\ knowledge_trees = None
    /\ reconciling = FALSE
    /\ chunk_list = <<>>
    /\ chunk_at = 0
    /\ chunk_pc = "idle"
    /\ rounds = 0
    /\ accepted = <<>>
    /\ store = <<>>
    /\ batch_size = 0
    /\ db_run = <<>>
    /\ files = <<>>
    /\ file_at = 0
    /\ node_name = "idle"
    /\ graph_result = FALSE
    /\ node_output = None
    /\ process_file_calls = <<>>
    /\ processed = <<>>
    /\ match_target = <<>>
    /\ match_document = <<>>
    /\ match_pc = "idle"
    /\ match_answer = FALSE
    /\ stage = "none"
    /\ max_retries = 0
    /\ attempt = 0
    /\ responses = <<>>
    /\ sleeps = <<>>
    /\ request_pc = "idle"
    /\ state_tree = None
    /\ iterations = 0
    /\ iter_i = 0
    /\ iter_runs = 0
    /\ iter_pc = "idle"
    /\ last_batch = None
    /\ is_dir = FALSE
    /\ walk = <<>>
    /\ walk_at = 0
    /\ walk_pc = "idle"
    /\ ingested = <<>>
    /\ collection = <<>>
    /\ stream_mode = FALSE
    /\ chat_backends = 0
    /\ chat_seq = 0
    /\ chat_error = None
    /\ chat_pc = "idle"
    /\ yielded = <<>>

\* the handler `except IndexError`
OnIndexError(e) ==
    /\ llm_pc' = "raised"
    /\ outcome' = IF last_error # None THEN last_error ELSE e
    /\ UNCHANGED <<seq, last_error>>

\* the handler `except Exception`
OnException(e) ==
    /\ last_error' = e
    /\ seq' = seq + 1
    /\ UNCHANGED <<llm_pc, outcome>>

\* one pass of `while True`: build the chain on backend seq, invoke it
Attempt(invoked) ==
    /\ llm_pc = "loop"
    /\ seq < MaxSeq
    /\ LET llm == GetLlmFromList(setup, seq) IN
         IF ~llm.ok
         THEN /\ invoked = "Exception"
              /\ UNCHANGED attempts
              /\ IF llm.kind = "IndexError"
                 THEN OnIndexError(Error("IndexError", "get_llm_from_list"))
                 ELSE OnException(Error(llm.kind, "get_llm_from_list"))
         ELSE /\ attempts' = Append(attempts, [backend |-> seq, outcome |-> invoked])
              /\ IF invoked = "result"
                 THEN /\ llm_pc' = "returned"
                      /\ outcome' = [t |-> "result", backend |-> seq]
                      /\ UNCHANGED <<seq, last_error>>
                 ELSE IF invoked = "IndexError"
                 THEN OnIndexError(Error("IndexError", seq))
                 ELSE OnException(Error("Exception", seq))
    /\ UNCHANGED <<setup, besidesLlm>>

----------------------------------------------------------------------------
(* gen_knowledge_chunk: leaf collection (init_chunk_list) and the content    *)
(* reconciliation of each chunk.  Document text is a sequence of characters, *)
(* because contains_match works on the characters.                           *)

\* some of the characters FormatInsensitiveMatcher ignores: white space, punctuation,
\* Markdown marks
IgnoreChars == {" ", "*", "_", "#", ".", ","}

\* str.casefold on the letters of the model
CaseFold(c) ==
    CASE c = "A" -> "a"
      [] c = "B" -> "b"
      [] OTHER -> c

IsIgnored(c) == c \in IgnoreChars
NotIgnored(c) == ~IsIgnored(c)

\* the ignored characters removed, upper and lower case kept apart
CleanTextKeepingCase(text) == SelectSeq(text, NotIgnored)

\* clean_text: the ignored characters removed, the rest case-folded
CleanText(text) ==
    LET kept == SelectSeq(text, NotIgnored)
    IN [i \in 1..Len(kept) |-> CaseFold(kept[i])]

\* clean_target in clean_doc
IsSubstring(target, document) ==
    \E i \in 0..(Len(document) - Len(target)) :
        SubSeq(document, i + 1, i + Len(target)) = target

\* FormatInsensitiveMatcher.contains_match
ContainsMatch(target, document) ==
    LET clean_target == CleanText(target)
    IN IF clean_target = <<>> THEN TRUE
       ELSE IsSubstring(clean_target, CleanText(document))

\* get_all_nodes / _get_all_nodes_from_node over a list of children: every node with
\* its path of titles, a node before its descendants, children in their order
RECURSIVE GetAllNodesFrom(_, _)
GetAllNodesFrom(children, parent_path) ==
    IF children = <<>> THEN <<>>
    ELSE LET node == Head(children)
             current_path == parent_path \o <<node.title>>
         IN <<[node |-> node, path |-> current_path]>>
            \o (IF Truthy(node.children)
                THEN GetAllNodesFrom(node.children.v, current_path) ELSE <<>>)
            \o GetAllNodesFrom(Tail(children), parent_path)

\* KnowledgeTree.get_all_nodes
GetAllNodes(k_tree) ==
    IF Truthy(k_tree.children) THEN GetAllNodesFrom(k_tree.children.v, <<>>) ELSE <<>>

KnowledgeChunk(title, content, metadata) ==
    [title |-> title, content |-> content, metadata |-> metadata]

\* a node is taken for a leaf only when its children are None
HasNoChildrenNone(node_info) == IsNone(node_info.node.children)

\* `if not node.children`
HasNoChildren(node_info) == ~Truthy(node_info.node.children)

\* init_chunk_list
InitChunkList(k_tree, source_file) ==
    LET leaves == SelectSeq(GetAllNodes(k_tree), HasNoChildren)
    IN [k \in 1..Len(leaves) |->
          KnowledgeChunk(leaves[k].node.title, leaves[k].node.content,
                         [parent_path |-> SubSeq(leaves[k].path, 1, Len(leaves[k].path) - 1),
                          full_path |-> leaves[k].path,
                          source_file |-> source_file])]

\* state.source_doc and state.source_file
SourceDoc == <<"A", "b", " ", "*", "b", "a", ".">>
SourceFile == "doc.txt"

TextNode(title, content, children) == KnowledgeNode(title, content, children)

\* trees as the evaluation loop hands them over: leaves at several depths, one of
\* them with an empty list of children; a tree without children; a tree of one leaf
ChunkTrees ==
    { TextNode("Doc", <<"a">>, List(<<
          TextNode("General", <<"a", "b">>, List(<<
              TextNode("Article1", <<"A", "b">>, None),
              TextNode("Article2", <<"b", "b">>, List(<<>>)) >>)),
          TextNode("Annex", <<"b", "a">>, None) >>)),
      TextNode("Doc", <<"a">>, None),
      TextNode("Doc", <<"a">>, List(<<TextNode("Only", <<"a", "b">>, None)>>)) }

\* what the corrective model can hand back as content
Answers == { <<"a", "b">>, <<"B", "*", "b">>, <<"a", "a">>, <<>> }

\* llm_eva_result: found, and the corrected content when not found
MatchResults ==
    {[t |-> "result", found |-> TRUE, corrected_content |-> <<>>]}
    \cup {[t |-> "result", found |-> FALSE, corrected_content |-> a] : a \in Answers}

\* the parsed answer of Recorrect_knowledge: result["content"]
RecorrectResults == {[t |-> "result", content |-> a] : a \in Answers}

\* the call of the model raised instead
Failure == [t |-> "raise"]

\* the content written to the first chunk of the list, whichever chunk is at hand
SetContentOfFirst(chunks, k, content) == [chunks EXCEPT ![1].content = content]
\* chunk.content = ... on the chunk at hand
SetContent(chunks, k, content) == [chunks EXCEPT ![k].content = content]

InitChunk ==
    /\ knowledge_trees \in ChunkTrees
    /\ reconciling \in BOOLEAN
    /\ chunk_list = <<>>
    /\ chunk_at = 0
    /\ chunk_pc = "start"
    /\ rounds = 0
    /\ accepted = <<>>
    \* the patch engine, the evaluation loop and the fallback are not running
    /\ heap = <<>>
    /\ modification_count = 0
    /\ error_log = <<>>
    /\ patch_pc = "idle"
    /\ last_call = NoCall
    /\ last_op = None
    /\ calls = 0
    /\ steps = 0
    /\ eva_k_times = 0
    /\ complete_count = 0
    /\ new_tree = None
    /\ eva_pc = "idle"
    /\ history = <<>>
    /\ setup = None
    /\ seq = 0
    /\ last_error = None
    /\ attempts = <<>>
    /\ llm_pc = "idle"
    /\ outcome = None
    /\ store = <<>>
    /\ batch_size = 0
    /\ db_run = <<>>
    /\ files = <<>>
    /\ file_at = 0
    /\ node_name = "idle"
    /\ graph_result = FALSE
    /\ node_output = None
    /\ process_file_calls = <<>>
    /\ processed = <<>>
    /\ match_target = <<>>
    /\ match_document = <<>>
    /\ match_pc = "idle"
    /\ match_answer = FALSE
    /\ stage = "none"
    /\ max_retries = 0
    /\ attempt = 0
    /\ responses = <<>>
    /\ sleeps = <<>>
    /\ request_pc = "idle"
    /\ state_tree = None
    /\ iterations = 0
    /\ iter_i = 0
    /\ iter_runs = 0
    /\ iter_pc = "idle"
    /\ last_batch = None
    /\ is_dir = FALSE
    /\ walk = <<>>
    /\ walk_at = 0
    /\ walk_pc = "idle"
    /\ ingested = <<>>
    /\ collection = <<>>
    /\ stream_mode = FALSE
    /\ chat_backends = 0
    /\ chat_seq = 0
    /\ chat_error = None
    /\ chat_pc = "idle"
    /\ yielded = <<>>

\* chunk_list = init_chunk_list(state.knowledge_trees, state.source_file)
StartChunks ==
    /\ chunk_pc = "start"
    /\ chunk_list' = InitChunkList(knowledge_trees, SourceFile)
    /\ chunk_at' = 1
    /\ chunk_pc' = "recorrect"
    /\ UNCHANGED <<knowledge_trees, reconciling, rounds, accepted, besidesChunk>>

\* the chunk is finished: on to the next one
NextChunk(how) ==
    /\ chunk_at' = chunk_at + 1
    /\ chunk_pc' = "recorrect"
    /\ rounds' = 0
    /\ accepted' = Append(accepted, how)

\* chunk.content = (await Recorrect_knowledge(state.source_doc, chunk)).content
RecorrectKnowledge(result) ==
    /\ chunk_pc = "recorrect"
    /\ chunk_at <= Len(chunk_list)
    /\ IF result = Failure
       THEN /\ chunk_pc' = "raised"
            /\ UNCHANGED <<chunk_list, chunk_at, rounds, accepted>>
       ELSE /\ chunk_list' = SetContent(chunk_list, chunk_at, result.content)
            /\ IF reconciling
               THEN /\ chunk_pc' = "check"
                    /\ UNCHANGED <<chunk_at, rounds, accepted>>
               ELSE NextChunk("unchecked")
    /\ UNCHANGED <<knowledge_trees, reconciling, besidesChunk>>

\* one pass of `while match_found == False`: contains_match and, when it fails, the
\* judgement of the model with its correction (match_result; None when not asked)
CheckRound(match_result) ==
    /\ chunk_pc = "check"
    /\ ContainsMatch(chunk_list[chunk_at].content, SourceDoc) <=> IsNone(match_result)
    /\ IF IsNone(match_result)
       THEN /\ NextChunk("matched")
            /\ UNCHANGED chunk_list
       ELSE IF match_result = Failure
       THEN /\ chunk_pc' = "raised"
            /\ UNCHANGED <<chunk_list, chunk_at, rounds, accepted>>
       ELSE IF match_result.found
       THEN /\ NextChunk("judged")
            /\ UNCHANGED chunk_list
       ELSE /\ rounds < MaxRounds
            /\ chunk_list' = SetContent(chunk_list, chunk_at, match_result.corrected_content)
            /\ rounds' = rounds + 1
            /\ UNCHANGED <<chunk_at, chunk_pc, accepted>>
    /\ UNCHANGED <<knowledge_trees, reconciling, besidesChunk>>

\* return chunk_list
ReturnChunkList ==
    /\ chunk_pc = "recorrect"
    /\ chunk_at > Len(chunk_list)
    /\ chunk_pc' = "returned"
    /\ UNCHANGED <<knowledge_trees, reconciling, chunk_list, chunk_at, rounds, accepted, besidesChunk>>

----------------------------------------------------------------------------
(* VectorDBManager: the store stage.  process_state_to_vectordb(chunks) of    *)
(* app_RAG_general.py ("general") and process_state_to_vectordb(state) of     *)
(* create_chunk_from_state.py ("state"), both ending in embed_documents.      *)

Runs == 1..MaxRuns

\* vectordb_config.max_records: 0, the default, sets no limit
max_records == 0

Document(page_content, source_file, chunk_index) ==
    [page_content |-> page_content, source_file |-> source_file, chunk_index |-> chunk_index]

\* a chunk as gen_chunks_with_metadata builds it
Chunk(source_file, chunk_content) ==
    [metadata |-> [source_file |-> source_file], chunk_content |-> chunk_content]

\* the loop of process_state_to_vectordb(chunks) that creates the documents: chunks
\* with empty content are skipped, chunk_index is the position in the list (from 0)
CreateDocuments(chunks) ==
    LET HasContent(i) == Len(chunks[i].chunk_content) > 0
        at == SelectSeq([i \in 1..Len(chunks) |-> i], HasContent)
    IN [k \in 1..Len(at) |->
          Document(chunks[at[k]].chunk_content, chunks[at[k]].metadata.source_file, at[k] - 1)]

\* the f-string that joins title and content under their labels
TitledContent(title, content) == <<"title: ", title, "content: ", content>>

\* chunks with empty content get a document too
CreateDocumentsKeepingEmpty(chunks, source_file) ==
    LET HasTitle(i) == Len(chunks[i].title) > 0
        at == SelectSeq([i \in 1..Len(chunks) |-> i], HasTitle)
    IN [k \in 1..Len(at) |->
          Document(TitledContent(chunks[at[k]].title, chunks[at[k]].content),
                   source_file, at[k] - 1)]

\* create_documents_from_chunks(state): at most max_records chunks when that is set,
\* chunks with empty title or content skipped, source_file taken from the metadata of
\* the chunk over that of the state
CreateDocumentsFromChunks(chunks, source_file) ==
    LET limited == IF max_records > 0 /\ Len(chunks) > max_records
                   THEN SubSeq(chunks, 1, max_records) ELSE chunks
        IsFilled(i) == Len(limited[i].title) > 0 /\ Len(limited[i].content) > 0
        at == SelectSeq([i \in 1..Len(limited) |-> i], IsFilled)
    IN [k \in 1..Len(at) |->
          Document(TitledContent(limited[at[k]].title, limited[at[k]].content),
                   IF "source_file" \in DOMAIN limited[at[k]].metadata
                   THEN limited[at[k]].metadata.source_file ELSE source_file,
                   at[k] - 1)]

\* nothing is removed from the collection
DeleteNothing(documents, source_file) == documents

\* vectorstore.delete(where={"source_file": source_file})
DeleteWhere(documents, source_file) ==
    LET IsOther(doc) == doc.source_file # source_file
    IN SelectSeq(documents, IsOther)

\* a success that leaves the error count as it was
RetrySingleKeepingErrors(st, doc, ok) ==
    IF ok
    THEN [st EXCEPT !.store = Append(@, doc), !.success_count = @ + 1]
    ELSE st

\* the retry of one document of a failed batch: vectorstore.add_documents([doc])
RetrySingle(st, doc, ok) ==
    IF ok
    THEN [st EXCEPT !.store = Append(@, doc), !.success_count = @ + 1, !.error_count = @ - 1]
    ELSE st

RECURSIVE RetrySingles(_, _, _, _)
RetrySingles(st, batch_docs, failing, j) ==
    IF j > Len(batch_docs) THEN st
    ELSE RetrySingles(RetrySingle(st, batch_docs[j], j \notin failing), batch_docs, failing, j + 1)

\* one pass of the batch loop of embed_documents on st = [store, success_count,
\* error_count]: the batch is added as a whole, or it fails and its documents are
\* added one by one, those at the positions in failing failing again
EmbedBatch(st, batch_docs, batch_ok, failing) ==
    IF batch_ok
    THEN [st EXCEPT !.store = @ \o batch_docs, !.success_count = @ + Len(batch_docs)]
    ELSE RetrySingles([st EXCEPT !.error_count = @ + Len(batch_docs)], batch_docs, failing, 1)

\* the inputs of a call: the file and the contents of its chunks
Files == {"a.txt"}
ContentLists == { <<>>, <<"x">>, <<"x", "", "y">> }
Managers == {"general", "state"}

\* what the collection holds before: nothing, or an earlier ingestion of a.txt and b.txt
EarlierStores ==
    { <<>>, <<Document("old", "a.txt", 0), Document("other", "b.txt", 0)>> }

IdleRun ==
    [pc |-> "idle", manager |-> "none", file |-> "", contents |-> <<>>, documents |-> <<>>,
     i |-> 0, success_count |-> 0, error_count |-> 0,
     batches |-> <<>>, failed |-> 0, alone |-> TRUE]

InitStore ==
    /\ store \in EarlierStores
    /\ batch_size \in 1..2
    /\ db_run = [p \in Runs |-> IdleRun]
    \* the other parts of the program are not running
    /\ heap = <<>>
    /\ modification_count = 0
    /\ error_log = <<>>
    /\ patch_pc = "idle"
    /\ last_call = NoCall
    /\ last_op = None
    /\ calls = 0
    /\ steps = 0
    /\ eva_k_times = 0
    /\ complete_count = 0
    /\ new_tree = None
    /\ eva_pc = "idle"
    /\ history = <<>>
    /\ setup = None
    /\ seq = 0
    /\ last_error = None
    /\ attempts = <<>>
    /\ llm_pc = "idle"
    /\ outcome = None
    /\ knowledge_trees = None
    /\ reconciling = FALSE
    /\ chunk_list = <<>>
    /\ chunk_at = 0
    /\ chunk_pc = "idle"
    /\ rounds = 0
    /\ accepted = <<>>
    /\ files = <<>>
    /\ file_at = 0
    /\ node_name = "idle"
    /\ graph_result = FALSE
    /\ node_output = None
    /\ process_file_calls = <<>>
    /\ processed = <<>>
    /\ match_target = <<>>
    /\ match_document = <<>>
    /\ match_pc = "idle"
    /\ match_answer = FALSE
    /\ stage = "none"
    /\ max_retries = 0
    /\ attempt = 0
    /\ responses = <<>>
    /\ sleeps = <<>>
    /\ request_pc = "idle"
    /\ state_tree = None
    /\ iterations = 0
    /\ iter_i = 0
    /\ iter_runs = 0
    /\ iter_pc = "idle"
    /\ last_batch = None
    /\ is_dir = FALSE
    /\ walk = <<>>
    /\ walk_at = 0
    /\ walk_pc = "idle"
    /\ ingested = <<>>
    /\ collection = <<>>
    /\ stream_mode = FALSE
    /\ chat_backends = 0
    /\ chat_seq = 0
    /\ chat_error = None
    /\ chat_pc = "idle"
    /\ yielded = <<>>

\* the runs that are between their delete and the end of embed_documents
Embedding(p) == db_run[p].pc = "embedding"

\* process_state_to_vectordb up to the call of embed_documents: the checks, the
\* delete of the old entries (general), the documents
ProcessStateToVectordb(p, manager, file, contents, delete_ok) ==
    /\ db_run[p].pc = "idle"
    /\ \A q \in 1..(p - 1) : db_run[q].pc # "idle"
    /\ LET chunks == [k \in 1..Len(contents) |->
                        IF manager = "general" THEN Chunk(file, contents[k])
                        ELSE KnowledgeChunk("Title", contents[k], [source_file |-> file])]
           documents == IF manager = "general" THEN CreateDocuments(chunks)
                        ELSE CreateDocumentsFromChunks(chunks, file)
           deletes == manager = "general" /\ chunks # <<>>
           overlapping == {q \in Runs : Embedding(q)}
           began == [db_run[p] EXCEPT !.manager = manager, !.file = file, !.contents = contents,
                                   !.alone = (overlapping = {})]
       IN /\ ~deletes => delete_ok
          /\ store' = IF deletes /\ delete_ok
                      THEN DeleteWhere(store, chunks[1].metadata.source_file) ELSE store
          /\ db_run' = [q \in Runs |->
                       IF q = p
                       THEN IF chunks = <<>> THEN [began EXCEPT !.pc = "returned"]
                            ELSE IF ~delete_ok THEN [began EXCEPT !.pc = "raised"]
                            ELSE IF documents = <<>> THEN [began EXCEPT !.pc = "returned"]
                            ELSE [began EXCEPT !.pc = "embedding", !.documents = documents]
                       ELSE IF q \in overlapping THEN [db_run[q] EXCEPT !.alone = FALSE]
                       ELSE db_run[q]]
    /\ UNCHANGED <<batch_size, besidesStore>>

\* embed_documents: one pass of `for i in range(0, total_docs, batch_size)`
EmbedDocumentsBatch(p, batch_ok, failing) ==
    /\ Embedding(p)
    /\ db_run[p].i < Len(db_run[p].documents)
    /\ LET r == db_run[p]
           upto == IF r.i + batch_size < Len(r.documents)
                   THEN r.i + batch_size ELSE Len(r.documents)
           batch_docs == SubSeq(r.documents, r.i + 1, upto)
       IN /\ failing \subseteq 1..Len(batch_docs)
          /\ batch_ok => failing = {}
          /\ \E after \in {EmbedBatch([store |-> store, success_count |-> r.success_count,
                                       error_count |-> r.error_count],
                                      batch_docs, batch_ok, failing)} :
                /\ store' = after.store
                /\ db_run' = [db_run EXCEPT ![p] =
                             [r EXCEPT !.i = r.i + batch_size,
                                       !.success_count = after.success_count,
                                       !.error_count = after.error_count,
                                       !.batches = Append(@, batch_docs),
                                       !.failed = @ + Cardinality(failing)]]
    /\ UNCHANGED <<batch_size, besidesStore>>

\* the end of embed_documents: raise when documents failed, else return
FinishEmbedDocuments(p) ==
    /\ Embedding(p)
    /\ db_run[p].i >= Len(db_run[p].documents)
    /\ db_run' = [db_run EXCEPT ![p].pc = IF db_run[p].error_count > 0 THEN "raised" ELSE "returned"]
    /\ UNCHANGED <<store, batch_size, besidesStore>>

----------------------------------------------------------------------------
(* Write_k_b_from_folder.process_files_in_directory over gen_chunk_graph: the  *)
(* files of a directory, one after the other, each through the five nodes.     *)

FileNames == {"a.txt", "b.md", "c.pdf"}

\* what get_supported_files can return: distinct paths, in the order of os.walk
FileLists ==
    UNION { {fs \in [1..n -> FileNames] : \A i, j \in 1..n : i # j => fs[i] # fs[j]}
            : n \in 0..MaxFiles }

\* the nodes in the order of the edges of the workflow
Nodes == <<"read_file", "get_knowledge", "evaluate_knowledge", "generate_chunks", "create_chunks">>

\* an edge from every node straight to the last one
NodeAfterSkipping(name) == Nodes[Len(Nodes)]
\* the node that the edge from `name` leads to
NodeAfter(name) ==
    Nodes[(CHOOSE k \in 1..Len(Nodes) : Nodes[k] = name) + 1]

\* the exception leaves the loop over the files
Propagated(list, at) == Len(list) + 1

\* process_file has returned, by its end or through its except clause: the loop of
\* process_files_in_directory goes to the next file
NextFile(list, at) == at + 1

\* what process_file got from gen_chunk_graph: its result, or an exception
GotResult(result) == [t |-> "returned", v |-> result]
GotException == [t |-> "raised"]

\* the record of one finished process_file call
Processed(file, result, last_node, stored) ==
    [file |-> file, result |-> result, last_node |-> last_node, stored |-> stored]

InitFolder ==
    /\ files \in FileLists
    /\ file_at = 0
    /\ node_name = "start"
    /\ graph_result = FALSE
    /\ node_output = None
    /\ process_file_calls = <<>>
    /\ processed = <<>>
    \* the other parts of the program are not running
    /\ heap = <<>>
    /\ modification_count = 0
    /\ error_log = <<>>
    /\ patch_pc = "idle"
    /\ last_call = NoCall
    /\ last_op = None
    /\ calls = 0
    /\ steps = 0
    /\ eva_k_times = 0
    /\ complete_count = 0
    /\ new_tree = None
    /\ eva_pc = "idle"
    /\ history = <<>>
    /\ setup = None
    /\ seq = 0
    /\ last_error = None
    /\ attempts = <<>>
    /\ llm_pc = "idle"
    /\ outcome = None
    /\ knowledge_trees = None
    /\ reconciling = FALSE
    /\ chunk_list = <<>>
    /\ chunk_at = 0
    /\ chunk_pc = "idle"
    /\ rounds = 0
    /\ accepted = <<>>
    /\ store = <<>>
    /\ batch_size = 0
    /\ db_run = <<>>
    /\ match_target = <<>>
    /\ match_document = <<>>
    /\ match_pc = "idle"
    /\ match_answer = FALSE
    /\ stage = "none"
    /\ max_retries = 0
    /\ attempt = 0
    /\ responses = <<>>
    /\ sleeps = <<>>
    /\ request_pc = "idle"
    /\ state_tree = None
    /\ iterations = 0
    /\ iter_i = 0
    /\ iter_runs = 0
    /\ iter_pc = "idle"
    /\ last_batch = None
    /\ is_dir = FALSE
    /\ walk = <<>>
    /\ walk_at = 0
    /\ walk_pc = "idle"
    /\ ingested = <<>>
    /\ collection = <<>>
    /\ stream_mode = FALSE
    /\ chat_backends = 0
    /\ chat_seq = 0
    /\ chat_error = None
    /\ chat_pc = "idle"
    /\ yielded = <<>>
\* the for loop of process_files_in_directory takes its next file, or ends
AtLoopHead == node_name \in {"start", "loop"}

\* process_files_in_directory: `if not files: return`, the end of the loop
ReturnFromDirectory ==
    /\ \/ node_name = "start" /\ files = <<>>
       \/ node_name = "loop" /\ file_at > Len(files)
    /\ node_name' = "done"
    /\ UNCHANGED <<files, file_at, graph_result, node_output, process_file_calls, processed, besidesFolder>>

\* process_file(file) begins: the import of gen_chunk_graph and the construction of
\* the workflow, up to `final_result = False`; an exception here is caught by
\* process_file
ProcessFile(ok) ==
    /\ AtLoopHead
    /\ files # <<>>
    /\ LET at == IF node_name = "start" THEN 1 ELSE file_at
       IN /\ at <= Len(files)
          /\ process_file_calls' = Append(process_file_calls, files[at])
          /\ node_output' = None
          /\ graph_result' = FALSE
          /\ IF ok
             THEN /\ file_at' = at
                  /\ node_name' = Nodes[1]
                  /\ processed' = processed
             ELSE /\ file_at' = NextFile(files, at)
                  /\ node_name' = "loop"
                  /\ processed' = Append(processed, Processed(files[at], GotException, "none", FALSE))
    /\ UNCHANGED <<files, besidesFolder>>

\* read_file_node, get_knowledge_node, evaluate_knowledge_node, generate_chunks_node:
\* the node returns the state, or logs and raises; gen_chunk_graph catches the
\* exception and returns False
RunNode(ok) ==
    /\ node_name \in {Nodes[k] : k \in 1..4}
    /\ IF ok
       THEN /\ node_name' = NodeAfter(node_name)
            /\ UNCHANGED <<file_at, processed>>
       ELSE /\ node_name' = "loop"
            /\ file_at' = NextFile(files, file_at)
            /\ processed' = Append(processed, Processed(files[file_at], GotResult(FALSE), node_name, FALSE))
    /\ UNCHANGED <<files, graph_result, node_output, process_file_calls, besidesFolder>>

\* create_chunks_node: {"result": True}, or {"result": False} when
\* process_state_to_vectordb raised
CreateChunksNode(ok) ==
    /\ node_name = "create_chunks"
    /\ node_output = None
    /\ node_output' = Dict(<< <<"result", ok>> >>)
    /\ UNCHANGED <<files, file_at, node_name, graph_result, process_file_calls, processed, besidesFolder>>

\* the event stream has ended: `return final_result`, and process_file logs it
ReturnFinalResult ==
    /\ node_name = "create_chunks"
    /\ node_output # None
    /\ node_name' = "loop"
    /\ file_at' = NextFile(files, file_at)
    /\ processed' = Append(processed, Processed(files[file_at], GotResult(graph_result), "create_chunks",
                                               Get(node_output, "result", FALSE)))
    /\ UNCHANGED <<files, graph_result, node_output, process_file_calls, besidesFolder>>

----------------------------------------------------------------------------
(* One document from the converged tree to the collection: generate_chunks_node *)
(* (gen_knowledge_chunk) followed by create_chunks_node                         *)
(* (process_state_to_vectordb(state)).                                          *)

\* the collection before the run: as in the store stage, or holding a document of
\* an earlier run on the same file
RunStores ==
    EarlierStores \cup { <<Document(TitledContent("Old", <<"b">>), SourceFile, 0)>> }

InitRun ==
    /\ knowledge_trees \in ChunkTrees
    /\ reconciling = FALSE
    /\ chunk_list = <<>>
    /\ chunk_at = 0
    /\ chunk_pc = "start"
    /\ rounds = 0
    /\ accepted = <<>>
    /\ store \in RunStores
    /\ batch_size \in 1..2
    /\ db_run = [p \in Runs |-> IdleRun]
    \* the other parts of the program are not running
    /\ heap = <<>>
    /\ modification_count = 0
    /\ error_log = <<>>
    /\ patch_pc = "idle"
    /\ last_call = NoCall
    /\ last_op = None
    /\ calls = 0
    /\ steps = 0
    /\ eva_k_times = 0
    /\ complete_count = 0
    /\ new_tree = None
    /\ eva_pc = "idle"
    /\ history = <<>>
    /\ setup = None
    /\ seq = 0
    /\ last_error = None
    /\ attempts = <<>>
    /\ llm_pc = "idle"
    /\ outcome = None
    /\ files = <<>>
    /\ file_at = 0
    /\ node_name = "idle"
    /\ graph_result = FALSE
    /\ node_output = None
    /\ process_file_calls = <<>>
    /\ processed = <<>>
    /\ match_target = <<>>
    /\ match_document = <<>>
    /\ match_pc = "idle"
    /\ match_answer = FALSE
    /\ stage = "none"
    /\ max_retries = 0
    /\ attempt = 0
    /\ responses = <<>>
    /\ sleeps = <<>>
    /\ request_pc = "idle"
    /\ state_tree = None
    /\ iterations = 0
    /\ iter_i = 0
    /\ iter_runs = 0
    /\ iter_pc = "idle"
    /\ last_batch = None
    /\ is_dir = FALSE
    /\ walk = <<>>
    /\ walk_at = 0
    /\ walk_pc = "idle"
    /\ ingested = <<>>
    /\ collection = <<>>
    /\ stream_mode = FALSE
    /\ chat_backends = 0
    /\ chat_seq = 0
    /\ chat_error = None
    /\ chat_pc = "idle"
    /\ yielded = <<>>
\* create_chunks_node on the state generate_chunks_node left: the checks of
\* process_state_to_vectordb(state) and the documents of its chunks
CreateChunksFromState ==
    /\ chunk_pc = "returned"
    /\ db_run[1].pc = "idle"
    /\ LET documents == CreateDocumentsFromChunks(chunk_list, SourceFile)
           began == [db_run[1] EXCEPT !.manager = "state", !.file = SourceFile,
                                      !.contents = [k \in 1..Len(chunk_list) |->
                                                      chunk_list[k].content]]
       IN db_run' = [db_run EXCEPT ![1] =
                        IF chunk_list = <<>> \/ documents = <<>>
                        THEN [began EXCEPT !.pc = "returned"]
                        ELSE [began EXCEPT !.pc = "embedding", !.documents = documents]]
    /\ UNCHANGED <<store, batch_size, besidesStore>>

----------------------------------------------------------------------------
(* FormatInsensitiveMatcher.contains_match as a call on its own *)

\* the characters of the texts: letters in both cases, a Markdown mark, white space
MatchChars == {"A", "a", "b", "*", " "}

\* the texts of at most n characters
Texts(n) == UNION { [1..k -> MatchChars] : k \in 0..n }

InitMatch ==
    /\ match_target \in Texts(MaxTextLen)
    /\ match_document \in Texts(MaxTextLen)
    /\ match_pc = "call"
    /\ match_answer = FALSE
    \* the other parts of the program are not running
    /\ heap = <<>>
    /\ modification_count = 0
    /\ error_log = <<>>
    /\ patch_pc = "idle"
    /\ last_call = NoCall
    /\ last_op = None
    /\ calls = 0
    /\ steps = 0
    /\ eva_k_times = 0
    /\ complete_count = 0
    /\ new_tree = None
    /\ eva_pc = "idle"
    /\ history = <<>>
    /\ setup = None
    /\ seq = 0
    /\ last_error = None
    /\ attempts = <<>>
    /\ llm_pc = "idle"
    /\ outcome = None
    /\ knowledge_trees = None
    /\ reconciling = FALSE
    /\ chunk_list = <<>>
    /\ chunk_at = 0
    /\ chunk_pc = "idle"
    /\ rounds = 0
    /\ accepted = <<>>
    /\ store = <<>>
    /\ batch_size = 0
    /\ db_run = <<>>
    /\ files = <<>>
    /\ file_at = 0
    /\ node_name = "idle"
    /\ graph_result = FALSE
    /\ node_output = None
    /\ process_file_calls = <<>>
    /\ processed = <<>>
    /\ stage = "none"
    /\ max_retries = 0
    /\ attempt = 0
    /\ responses = <<>>
    /\ sleeps = <<>>
    /\ request_pc = "idle"
    /\ state_tree = None
    /\ iterations = 0
    /\ iter_i = 0
    /\ iter_runs = 0
    /\ iter_pc = "idle"
    /\ last_batch = None
    /\ is_dir = FALSE
    /\ walk = <<>>
    /\ walk_at = 0
    /\ walk_pc = "idle"
    /\ ingested = <<>>
    /\ collection = <<>>
    /\ stream_mode = FALSE
    /\ chat_backends = 0
    /\ chat_seq = 0
    /\ chat_error = None
    /\ chat_pc = "idle"
    /\ yielded = <<>>
\* matcher.contains_match(target, document)
ContainsMatchCall ==
    /\ match_pc = "call"
    /\ match_answer' = ContainsMatch(match_target, match_document)
    /\ match_pc' = "returned"
    /\ UNCHANGED <<match_target, match_document, besidesMatch>>

----------------------------------------------------------------------------
(* The stages that call a model.  init_k_chain (get_k_llm),                  *)
(* init_evaluation_chain (eva_k_llm), Recorrect_knowledge (recorrect_k_llm)  *)
(* and the matcher chains (matcher_llm) build their chain on get_llm;        *)
(* add_metadata_2_chunk (gen_metadata_llm) builds it on get_llm_from_list.   *)
(* setup describes the entry of graph_config that the stage reads.           *)

SingleStages == {"get_k_llm", "eva_k_llm", "recorrect_k_llm", "matcher_llm"}

Stages == SingleStages \cup {"gen_metadata_llm"}

\* get_llm(type): graph_config[type] names the parameter section; a list there is
\* no key of the mapping (TypeError: unhashable type)
GetLlm(c) ==
    IF ~c.has_key THEN Raise("KeyError", "graph_config")
    ELSE IF c.is_list THEN Raise("TypeError", "unhashable type: list")
    ELSE IF c.names[1] \notin c.sections THEN Raise("KeyError", c.names[1])
    ELSE Ok(c.names[1])

InitStage ==
    /\ stage \in Stages
    /\ setup \in {c \in Setups : ValidSetup(c)}
    /\ seq = 0
    /\ last_error = None
    /\ attempts = <<>>
    /\ llm_pc = "loop"
    /\ outcome = None
    /\ heap = <<>>
    /\ modification_count = 0
    /\ error_log = <<>>
    /\ patch_pc = "idle"
    /\ last_call = NoCall
    /\ last_op = None
    /\ calls = 0
    /\ steps = 0
    /\ eva_k_times = 0
    /\ complete_count = 0
    /\ new_tree = None
    /\ eva_pc = "idle"
    /\ history = <<>>
    /\ knowledge_trees = None
    /\ reconciling = FALSE
    /\ chunk_list = <<>>
    /\ chunk_at = 0
    /\ chunk_pc = "idle"
    /\ rounds = 0
    /\ accepted = <<>>
    /\ store = <<>>
    /\ batch_size = 0
    /\ db_run = <<>>
    /\ files = <<>>
    /\ file_at = 0
    /\ node_name = "idle"
    /\ graph_result = FALSE
    /\ node_output = None
    /\ process_file_calls = <<>>
    /\ processed = <<>>
    /\ match_target = <<>>
    /\ match_document = <<>>
    /\ match_pc = "idle"
    /\ match_answer = FALSE
    /\ max_retries = 0
    /\ attempt = 0
    /\ responses = <<>>
    /\ sleeps = <<>>
    /\ request_pc = "idle"
    /\ state_tree = None
    /\ iterations = 0
    /\ iter_i = 0
    /\ iter_runs = 0
    /\ iter_pc = "idle"
    /\ last_batch = None
    /\ is_dir = FALSE
    /\ walk = <<>>
    /\ walk_at = 0
    /\ walk_pc = "idle"
    /\ ingested = <<>>
    /\ collection = <<>>
    /\ stream_mode = FALSE
    /\ chat_backends = 0
    /\ chat_seq = 0
    /\ chat_error = None
    /\ chat_pc = "idle"
    /\ yielded = <<>>

\* a stage on get_llm: the chain is built once and invoked; whatever is raised leaves
\* the stage
InvokeChain(invoked) ==
    /\ stage \in SingleStages
    /\ llm_pc = "loop"
    /\ LET llm == GetLlm(setup) IN
         IF ~llm.ok
         THEN /\ invoked = "Exception"
              /\ llm_pc' = "raised"
              /\ outcome' = Error(llm.kind, "get_llm")
              /\ UNCHANGED attempts
         ELSE /\ attempts' = Append(attempts, [backend |-> 0, outcome |-> invoked])
              /\ IF invoked = "result"
                 THEN /\ llm_pc' = "returned"
                      /\ outcome' = [t |-> "result", backend |-> 0]
                 ELSE /\ llm_pc' = "raised"
                      /\ outcome' = Error(invoked, 0)
    /\ UNCHANGED <<setup, seq, last_error, besidesLlm>>

\* the metadata stage: one pass of the loop of add_metadata_2_chunk
AddMetadata(invoked) ==
    /\ stage = "gen_metadata_llm"
    /\ Attempt(invoked)

----------------------------------------------------------------------------
(* CustomEmbeddings._make_request: the embedding request and its retries.    *)
(* A response is its status code (200, or 500 for any other status) or the   *)
(* RequestException that requests.post raised; the body of a 200 is the JSON *)
(* object of the embeddings API.                                             *)

Responses == {"200", "500", "RequestException"}

\* time.sleep after the attempt that failed: 2 ** attempt seconds, but none after
\* the last attempt
BackoffAfterEvery(n, retries) == <<2 ^ n>>
Backoff(n, retries) == IF n < retries - 1 THEN <<2 ^ n>> ELSE <<>>

InitRequest ==
    /\ max_retries \in 0..MaxRetries
    /\ attempt = 0
    /\ responses = <<>>
    /\ sleeps = <<>>
    /\ request_pc = "loop"
    /\ heap = <<>>
    /\ modification_count = 0
    /\ error_log = <<>>
    /\ patch_pc = "idle"
    /\ last_call = NoCall
    /\ last_op = None
    /\ calls = 0
    /\ steps = 0
    /\ eva_k_times = 0
    /\ complete_count = 0
    /\ new_tree = None
    /\ eva_pc = "idle"
    /\ history = <<>>
    /\ setup = None
    /\ seq = 0
    /\ last_error = None
    /\ attempts = <<>>
    /\ llm_pc = "idle"
    /\ outcome = None
    /\ knowledge_trees = None
    /\ reconciling = FALSE
    /\ chunk_list = <<>>
    /\ chunk_at = 0
    /\ chunk_pc = "idle"
    /\ rounds = 0
    /\ accepted = <<>>
    /\ store = <<>>
    /\ batch_size = 0
    /\ db_run = <<>>
    /\ files = <<>>
    /\ file_at = 0
    /\ node_name = "idle"
    /\ graph_result = FALSE
    /\ node_output = None
    /\ process_file_calls = <<>>
    /\ processed = <<>>
    /\ match_target = <<>>
    /\ match_document = <<>>
    /\ match_pc = "idle"
    /\ match_answer = FALSE
    /\ stage = "none"
    /\ state_tree = None
    /\ iterations = 0
    /\ iter_i = 0
    /\ iter_runs = 0
    /\ iter_pc = "idle"
    /\ last_batch = None
    /\ is_dir = FALSE
    /\ walk = <<>>
    /\ walk_at = 0
    /\ walk_pc = "idle"
    /\ ingested = <<>>
    /\ collection = <<>>
    /\ stream_mode = FALSE
    /\ chat_backends = 0
    /\ chat_seq = 0
    /\ chat_error = None
    /\ chat_pc = "idle"
    /\ yielded = <<>>

\* one pass of `for attempt in range(self.max_retries)`: the request, and the sleep
\* that follows a failure
MakeRequest(response) ==
    /\ request_pc = "loop"
    /\ attempt < max_retries
    /\ responses' = Append(responses, response)
    /\ IF response = "200"
       THEN /\ request_pc' = "returned"
            /\ UNCHANGED <<attempt, sleeps>>
       ELSE /\ sleeps' = sleeps \o Backoff(attempt, max_retries)
            /\ attempt' = attempt + 1
            /\ UNCHANGED request_pc
    /\ UNCHANGED <<max_retries, besidesRequest>>

\* the range is used up: raise Exception
RaiseAfterRetries ==
    /\ request_pc = "loop"
    /\ attempt >= max_retries
    /\ request_pc' = "raised"
    /\ UNCHANGED <<max_retries, attempt, responses, sleeps, besidesRequest>>

----------------------------------------------------------------------------
(* run_eva_k_iterations (eva_k_worker_V0.1): the modification list of each    *)
(* evaluation applied by KnowledgeTreeModifier, and the tree of the state     *)
(* replaced when the whole list succeeded.                                    *)

\* operations as init_eva_k_chain validates them: an add that succeeds, a del of
\* the first child, a del past the end, a none
IterOperations ==
    { ModificationOperation("add", ChildrenOf(root_s), PlainPayload),
      ModificationOperation("del", ChildAt(root_s, <<"0">>), None),
      ModificationOperation("del", ChildAt(root_s, <<"7">>), None),
      ModificationOperation("none", root_s, None) }

ModificationLists == UNION { [1..n -> IterOperations] : n \in 0..MaxBatch }

\* the tree of the state is replaced whenever an operation of the list succeeded
ReplacesWhenAnySucceeded(modification_stats) == modification_stats.total_modifications > 0
\* `if modification_stats['success']`: state.knowledge_trees = modified_tree
Replaces(modification_stats) == modification_stats.success

\* the branches that end with i += 1
Advances(modification_stats) ==
    modification_stats.success \/ ~(modification_stats.total_modifications > 0)

InitIter ==
    /\ state_tree \in {ThreeLeafTree, BareTree}
    /\ iterations \in 0..MaxPasses
    /\ iter_i = 0
    /\ iter_runs = 0
    /\ iter_pc = "loop"
    /\ last_batch = None
    /\ heap = <<>>
    /\ modification_count = 0
    /\ error_log = <<>>
    /\ patch_pc = "idle"
    /\ last_call = NoCall
    /\ last_op = None
    /\ calls = 0
    /\ steps = 0
    /\ eva_k_times = 0
    /\ complete_count = 0
    /\ new_tree = None
    /\ eva_pc = "idle"
    /\ history = <<>>
    /\ setup = None
    /\ seq = 0
    /\ last_error = None
    /\ attempts = <<>>
    /\ llm_pc = "idle"
    /\ outcome = None
    /\ knowledge_trees = None
    /\ reconciling = FALSE
    /\ chunk_list = <<>>
    /\ chunk_at = 0
    /\ chunk_pc = "idle"
    /\ rounds = 0
    /\ accepted = <<>>
    /\ store = <<>>
    /\ batch_size = 0
    /\ db_run = <<>>
    /\ files = <<>>
    /\ file_at = 0
    /\ node_name = "idle"
    /\ graph_result = FALSE
    /\ node_output = None
    /\ process_file_calls = <<>>
    /\ processed = <<>>
    /\ match_target = <<>>
    /\ match_document = <<>>
    /\ match_pc = "idle"
    /\ match_answer = FALSE
    /\ stage = "none"
    /\ max_retries = 0
    /\ attempt = 0
    /\ responses = <<>>
    /\ sleeps = <<>>
    /\ request_pc = "idle"
    /\ is_dir = FALSE
    /\ walk = <<>>
    /\ walk_at = 0
    /\ walk_pc = "idle"
    /\ ingested = <<>>
    /\ collection = <<>>
    /\ stream_mode = FALSE
    /\ chat_backends = 0
    /\ chat_seq = 0
    /\ chat_error = None
    /\ chat_pc = "idle"
    /\ yielded = <<>>

\* one pass of `while i < iterations`: the list is applied to a copy of the tree of
\* the state, and the statistics decide what becomes of the copy and of i
RunIteration(modification_list) ==
    /\ iter_pc = "loop"
    /\ iter_i < iterations
    /\ iter_runs < MaxIterRuns
    /\ \E patched \in {RunModifications(modification_list, state_tree)} :
       \E modification_stats \in {GetModificationStats(patched.modification_count,
                                                       patched.error_log)} :
          /\ state_tree' = IF Replaces(modification_stats) THEN patched.tree ELSE state_tree
          /\ iter_i' = IF Advances(modification_stats) THEN iter_i + 1 ELSE iter_i
          /\ last_batch' = [t |-> "batch", list |-> modification_list, before |-> state_tree,
                            tree |-> patched.tree, stats |-> modification_stats]
    /\ iter_runs' = iter_runs + 1
    /\ UNCHANGED <<iterations, iter_pc, besidesIter>>

\* the loop condition fails: return state
ReturnState ==
    /\ iter_pc = "loop"
    /\ iter_i >= iterations
    /\ iter_pc' = "returned"
    /\ UNCHANGED <<state_tree, iterations, iter_i, iter_runs, last_batch, besidesIter>>

----------------------------------------------------------------------------
(* app_RAG_general.gen_chunks_from_folder over gen_single_file_chunks: every   *)
(* supported file under a folder is chunked and written to the collection.     *)

\* a path: the directory os.walk is in, the stem and the extension of the file
Path(dir, stem, ext) == [dir |-> dir, stem |-> stem, ext |-> ext]

\* the folder and one directory below it, in the top-down order of os.walk
WalkDirs == <<"docs", "docs/sub">>
WalkExts == {".txt", ".PDF", ".png"}
WalkPaths == {Path(WalkDirs[d], "a", e) : d \in 1..Len(WalkDirs), e \in WalkExts}
DirRank(path) == CHOOSE d \in 1..Len(WalkDirs) : WalkDirs[d] = path.dir

\* what the two loops over os.walk can go through: distinct paths, the files of the
\* folder before those of the directory below it
Walks ==
    UNION { {w \in [1..n -> WalkPaths] :
                \A i, j \in 1..n : i < j => /\ w[i] # w[j]
                                            /\ DirRank(w[i]) <= DirRank(w[j])}
            : n \in 0..MaxFiles }

\* str.lower() on the extensions at hand
LowerExt(ext) == IF ext = ".PDF" THEN ".pdf" ELSE ext

supported_extensions == {".txt", ".md", ".docx", ".doc", ".xlsx", ".xls", ".pdf"}

\* os.path.splitext(file_path)[1].lower() in supported_extensions
IsSupported(path) == LowerExt(path.ext) \in supported_extensions

\* os.path.basename(file)
Basename(path) == [stem |-> path.stem, ext |-> path.ext]

\* how one gen_single_file_chunks call can go: an exception in read_file_to_string,
\* semantic_chunker or gen_chunks_with_metadata, an embedding model that does not
\* answer, no chunks, an exception in the delete or in embed_documents, or the end
IngestResults ==
    {"read", "chunker", "metadata", "no_connection", "no_chunks", "delete", "embed", "stored"}

\* the exceptions: `except Exception` of gen_single_file_chunks, which ends in sys.exit(1)
IngestFailures == {"read", "chunker", "metadata", "delete", "embed"}

\* the results with which vectorstore.delete has been carried out
Deleted(result) == result \in {"embed", "stored"}

\* an entry of the collection: the document and the path of the file it was made from
Entry(path, page_content) ==
    [page_content |-> page_content, source_file |-> Basename(path), chunk_index |-> 0,
     path |-> path]

\* the record of one gen_single_file_chunks call
Ingested(path, result) == [path |-> path, result |-> result]

InitIngest ==
    /\ is_dir \in BOOLEAN
    /\ walk \in IF is_dir THEN Walks ELSE {<<>>}
    /\ walk_at = 1
    /\ walk_pc = "loop"
    /\ ingested = <<>>
    /\ collection = <<>>
    \* the other parts of the program are not running
    /\ heap = <<>>
    /\ modification_count = 0
    /\ error_log = <<>>
    /\ patch_pc = "idle"
    /\ last_call = NoCall
    /\ last_op = None
    /\ calls = 0
    /\ steps = 0
    /\ eva_k_times = 0
    /\ complete_count = 0
    /\ new_tree = None
    /\ eva_pc = "idle"
    /\ history = <<>>
    /\ setup = None
    /\ seq = 0
    /\ last_error = None
    /\ attempts = <<>>
    /\ llm_pc = "idle"
    /\ outcome = None
    /\ knowledge_trees = None
    /\ reconciling = FALSE
    /\ chunk_list = <<>>
    /\ chunk_at = 0
    /\ chunk_pc = "idle"
    /\ rounds = 0
    /\ accepted = <<>>
    /\ store = <<>>
    /\ batch_size = 0
    /\ db_run = <<>>
    /\ files = <<>>
    /\ file_at = 0
    /\ node_name = "idle"
    /\ graph_result = FALSE
    /\ node_output = None
    /\ process_file_calls = <<>>
    /\ processed = <<>>
    /\ match_target = <<>>
    /\ match_document = <<>>
    /\ match_pc = "idle"
    /\ match_answer = FALSE
    /\ stage = "none"
    /\ max_retries = 0
    /\ attempt = 0
    /\ responses = <<>>
    /\ sleeps = <<>>
    /\ request_pc = "idle"
    /\ state_tree = None
    /\ iterations = 0
    /\ iter_i = 0
    /\ iter_runs = 0
    /\ iter_pc = "idle"
    /\ last_batch = None
    /\ stream_mode = FALSE
    /\ chat_backends = 0
    /\ chat_seq = 0
    /\ chat_error = None
    /\ chat_pc = "idle"
    /\ yielded = <<>>

\* `if not os.path.isdir(folder_name): return`
ReturnNoFolder ==
    /\ walk_pc = "loop"
    /\ ~is_dir
    /\ walk_pc' = "done"
    /\ UNCHANGED <<is_dir, walk, walk_at, ingested, collection, besidesIngest>>

\* a file whose extension is not supported: the loop goes on
SkipFile ==
    /\ walk_pc = "loop"
    /\ is_dir
    /\ walk_at <= Len(walk)
    /\ ~IsSupported(walk[walk_at])
    /\ walk_at' = walk_at + 1
    /\ UNCHANGED <<is_dir, walk, walk_pc, ingested, collection, besidesIngest>>

\* `await gen_single_file_chunks(file_path)` on a supported file. The call returns
\* when the file is stored, when the embedding model does not answer and when there
\* are no chunks; on an exception it calls sys.exit(1), and SystemExit is not an
\* Exception: neither `except Exception` of gen_chunks_from_folder catches it
GenSingleFileChunks(result) ==
    /\ walk_pc = "loop"
    /\ is_dir
    /\ walk_at <= Len(walk)
    /\ IsSupported(walk[walk_at])
    /\ LET file == walk[walk_at]
           kept == IF Deleted(result) THEN DeleteWhere(collection, Basename(file))
                   ELSE collection
       IN /\ collection' = IF result = "stored" THEN Append(kept, Entry(file, "x")) ELSE kept
          /\ ingested' = Append(ingested, Ingested(file, result))
          /\ IF result \in IngestFailures
             THEN /\ walk_pc' = "exited"
                  /\ walk_at' = walk_at
             ELSE /\ walk_pc' = walk_pc
                  /\ walk_at' = walk_at + 1
    /\ UNCHANGED <<is_dir, walk, besidesIngest>>

\* the end of the loops over os.walk
FinishWalk ==
    /\ walk_pc = "loop"
    /\ is_dir
    /\ walk_at > Len(walk)
    /\ walk_pc' = "done"
    /\ UNCHANGED <<is_dir, walk, walk_at, ingested, collection, besidesIngest>>


----------------------------------------------------------------------------
(* app_RAG_V3.run_app: the retrieved context, then the answer of the first     *)
(* backend of RAG_chat_llm that does not fail, yielded piece by piece.         *)

\* what run_app yields: the retrieved context, a piece of the answer of a backend,
\* the notice that a backend failed, the notice that all failed, the final error
YieldedThink == [kind |-> "think", backend |-> -1]
YieldedToken(backend) == [kind |-> "token", backend |-> backend]
YieldedNotice(backend) == [kind |-> "notice", backend |-> backend]
YieldedAllFailed == [kind |-> "all_failed", backend |-> -1]
YieldedError == [kind |-> "error", backend |-> -1]

\* the answer pieces yielded from the backend at index backend
TokensOf(backend) ==
    LET IsTokenOf(y) == y = YieldedToken(backend)
    IN SelectSeq(yielded, IsTokenOf)

InitChat ==
    /\ stream_mode \in BOOLEAN
    /\ chat_backends \in 0..MaxBackends
    /\ chat_seq = 0
    /\ chat_error = None
    /\ chat_pc = "start"
    /\ yielded = <<>>
    \* the other parts of the program are not running
    /\ heap = <<>>
    /\ modification_count = 0
    /\ error_log = <<>>
    /\ patch_pc = "idle"
    /\ last_call = NoCall
    /\ last_op = None
    /\ calls = 0
    /\ steps = 0
    /\ eva_k_times = 0
    /\ complete_count = 0
    /\ new_tree = None
    /\ eva_pc = "idle"
    /\ history = <<>>
    /\ setup = None
    /\ seq = 0
    /\ last_error = None
    /\ attempts = <<>>
    /\ llm_pc = "idle"
    /\ outcome = None
    /\ knowledge_trees = None
    /\ reconciling = FALSE
    /\ chunk_list = <<>>
    /\ chunk_at = 0
    /\ chunk_pc = "idle"
    /\ rounds = 0
    /\ accepted = <<>>
    /\ store = <<>>
    /\ batch_size = 0
    /\ db_run = <<>>
    /\ files = <<>>
    /\ file_at = 0
    /\ node_name = "idle"
    /\ graph_result = FALSE
    /\ node_output = None
    /\ process_file_calls = <<>>
    /\ processed = <<>>
    /\ match_target = <<>>
    /\ match_document = <<>>
    /\ match_pc = "idle"
    /\ match_answer = FALSE
    /\ stage = "none"
    /\ max_retries = 0
    /\ attempt = 0
    /\ responses = <<>>
    /\ sleeps = <<>>
    /\ request_pc = "idle"
    /\ state_tree = None
    /\ iterations = 0
    /\ iter_i = 0
    /\ iter_runs = 0
    /\ iter_pc = "idle"
    /\ last_batch = None
    /\ is_dir = FALSE
    /\ walk = <<>>
    /\ walk_at = 0
    /\ walk_pc = "idle"
    /\ ingested = <<>>
    /\ collection = <<>>

\* the configuration, the prompt file and retrieve_with_rerank, up to the first
\* yield; an exception there reaches the outer except clause
Retrieve(ok) ==
    /\ chat_pc = "start"
    /\ IF ok
       THEN /\ yielded' = Append(yielded, YieldedThink)
            /\ chat_pc' = "loop"
       ELSE /\ yielded' = Append(yielded, YieldedError)
            /\ chat_pc' = "done"
    /\ UNCHANGED <<stream_mode, chat_backends, chat_seq, chat_error, besidesChat>>

\* get_llm_from_list("RAG_chat_llm", seq) raises IndexError: the notice when a
\* backend had failed, the re-raise, and the yield of the outer except clause
AllBackendsTried ==
    /\ chat_pc = "loop"
    /\ chat_seq >= chat_backends
    /\ yielded' = IF chat_error # None
                  THEN yielded \o <<YieldedAllFailed, YieldedError>>
                  ELSE Append(yielded, YieldedError)
    /\ chat_pc' = "done"
    /\ UNCHANGED <<stream_mode, chat_backends, chat_seq, chat_error, besidesChat>>

\* `except Exception as e` of the while loop
BackendFailed ==
    /\ chat_error' = [t |-> "error", backend |-> chat_seq]
    /\ yielded' = Append(yielded, YieldedNotice(chat_seq))
    /\ chat_seq' = chat_seq + 1
    /\ chat_pc' = "loop"

\* stream_mode off: qa_chain.ainvoke gives the whole answer, which is yielded before
\* the break, or it raises
Invoke(ok) ==
    /\ chat_pc = "loop"
    /\ chat_seq < chat_backends
    /\ ~stream_mode
    /\ IF ok
       THEN /\ yielded' = Append(yielded, YieldedToken(chat_seq))
            /\ chat_pc' = "done"
            /\ UNCHANGED <<chat_seq, chat_error>>
       ELSE BackendFailed
    /\ UNCHANGED <<stream_mode, chat_backends, besidesChat>>

\* stream_mode on: qa_chain.astream is entered
BeginStream ==
    /\ chat_pc = "loop"
    /\ chat_seq < chat_backends
    /\ stream_mode
    /\ chat_pc' = "streaming"
    /\ UNCHANGED <<stream_mode, chat_backends, chat_seq, chat_error, yielded, besidesChat>>

\* one pass of `async for token in qa_chain.astream(...)`: the token is yielded
StreamToken ==
    /\ chat_pc = "streaming"
    /\ Len(TokensOf(chat_seq)) < MaxTokens
    /\ yielded' = Append(yielded, YieldedToken(chat_seq))
    /\ UNCHANGED <<stream_mode, chat_backends, chat_seq, chat_error, chat_pc, besidesChat>>

\* the stream ends and the loop is left by its break, or the stream raises
EndStream(ok) ==
    /\ chat_pc = "streaming"
    /\ IF ok
       THEN /\ chat_pc' = "done"
            /\ UNCHANGED <<chat_seq, chat_error, yielded>>
       ELSE BackendFailed
    /\ UNCHANGED <<stream_mode, chat_backends, besidesChat>>


----------------------------------------------------------------------------
(* Specifications *)

NextPatch ==
    \/ \E r \in 1..Len(heap) : BeginModify(r)
    \/ \E operation \in InputOperations : ApplyNext(operation)
    \/ ReturnModified
    \/ \E r \in 1..Len(heap), target_path \in AppendPaths, new_node \in AppendNodes :
           AppendKnowledgeNode(r, target_path, new_node)

SpecPatch == InitPatch /\ [][NextPatch]_vars

NextEval ==
    \/ \E final_result \in EvaluationResults : Evaluate(final_result)
    \/ ReturnTree

SpecEval == InitEval /\ [][NextEval]_vars

NextLlm == \E invoked \in InvokeOutcomes : Attempt(invoked)

SpecLlm == InitLlm /\ [][NextLlm]_vars

NextChunks ==
    \/ StartChunks
    \/ \E result \in RecorrectResults \cup {Failure} : RecorrectKnowledge(result)
    \/ \E match_result \in MatchResults \cup {Failure, None} : CheckRound(match_result)
    \/ ReturnChunkList

SpecChunk == InitChunk /\ [][NextChunks]_vars

NextStore ==
    \/ \E p \in Runs, manager \in Managers, file \in Files, contents \in ContentLists,
          delete_ok \in BOOLEAN :
           ProcessStateToVectordb(p, manager, file, contents, delete_ok)
    \/ \E p \in Runs, batch_ok \in BOOLEAN, failing \in SUBSET (1..2) :
           EmbedDocumentsBatch(p, batch_ok, failing)
    \/ \E p \in Runs : FinishEmbedDocuments(p)

SpecStore == InitStore /\ [][NextStore]_vars

NextFolder ==
    \/ ReturnFromDirectory
    \/ \E ok \in BOOLEAN : ProcessFile(ok)
    \/ \E ok \in BOOLEAN : RunNode(ok)
    \/ \E ok \in BOOLEAN : CreateChunksNode(ok)
    \/ ReturnFinalResult

SpecFolder == InitFolder /\ [][NextFolder]_vars

NextRun ==
    \/ StartChunks
    \/ \E result \in RecorrectResults \cup {Failure} : RecorrectKnowledge(result)
    \/ ReturnChunkList
    \/ CreateChunksFromState
    \/ \E batch_ok \in BOOLEAN, failing \in SUBSET (1..2) :
           EmbedDocumentsBatch(1, batch_ok, failing)
    \/ FinishEmbedDocuments(1)

SpecRun == InitRun /\ [][NextRun]_vars

NextMatch == ContainsMatchCall

SpecMatch == InitMatch /\ [][NextMatch]_vars

NextStage ==
    \/ \E invoked \in InvokeOutcomes : InvokeChain(invoked)
    \/ \E invoked \in InvokeOutcomes : AddMetadata(invoked)

SpecStage == InitStage /\ [][NextStage]_vars


NextRequest ==
    \/ \E response \in Responses : MakeRequest(response)
    \/ RaiseAfterRetries

SpecRequest == InitRequest /\ [][NextRequest]_vars


NextIter ==
    \/ \E modification_list \in ModificationLists : RunIteration(modification_list)
    \/ ReturnState

SpecIter == InitIter /\ [][NextIter]_vars



NextIngest ==
    \/ ReturnNoFolder
    \/ SkipFile
    \/ \E result \in IngestResults : GenSingleFileChunks(result)
    \/ FinishWalk

SpecIngest == InitIngest /\ [][NextIngest]_vars



NextChat ==
    \/ \E ok \in BOOLEAN : Retrieve(ok)
    \/ AllBackendsTried
    \/ \E ok \in BOOLEAN : Invoke(ok)
    \/ BeginStream
    \/ StreamToken
    \/ \E ok \in BOOLEAN : EndStream(ok)

SpecChat == InitChat /\ [][NextChat]_vars


----------------------------------------------------------------------------
(* What the patch operations are expected to do, stated on addresses *)

Kids(node) == IF IsNone(node.children) THEN <<>> ELSE node.children.v

\* the addresses of all nodes below and including node
RECURSIVE Addresses(_)
Addresses(node) ==
    {<<>>} \cup UNION { {<<i>> \o a : a \in Addresses(Kids(node)[i])} : i \in 1..Len(Kids(node)) }

\* "root", "root.children[i]", "root.children[i].children[j]", ... (indices below 10)
RECURSIVE PathOfAddress(_)
PathOfAddress(addr) ==
    IF addr = <<>> THEN root_s
    ELSE ChildAt(PathOfAddress(SubSeq(addr, 1, Len(addr) - 1)), <<DigitChars[addr[Len(addr)]]>>)

\* the tree with new as the last child of the node at addr, all else as it was
RECURSIVE Graft(_, _, _)
Graft(node, addr, new) ==
    IF addr = <<>> THEN [node EXCEPT !.children = List(Kids(node) \o <<new>>)]
    ELSE [node EXCEPT !.children =
            List([Kids(node) EXCEPT ![Head(addr)] = Graft(@, Tail(addr), new)])]

\* the tree without the child at addr (and its subtree), all else as it was
RECURSIVE Prune(_, _)
Prune(node, addr) ==
    IF Len(addr) = 1
    THEN LET rest == [i \in 1..(Len(Kids(node)) - 1) |->
                        IF i < addr[1] THEN Kids(node)[i] ELSE Kids(node)[i + 1]]
         IN [node EXCEPT !.children = IF Len(rest) = 0 THEN None ELSE List(rest)]
    ELSE [node EXCEPT !.children =
            List([Kids(node) EXCEPT ![Head(addr)] = Prune(@, Tail(addr))])]

\* a payload all of whose descendants are dicts with a title and a content
RECURSIVE WellFormedDict(_)
WellFormedDict(d) ==
    /\ d.t = "dict"
    /\ Get(d, "title", None).t = "str"
    /\ Get(d, "content", None).t = "str"
    /\ LET c == Get(d, "children", None)
       IN \/ c.t = "none"
          \/ c.t = "list" /\ \A i \in 1..Len(c.v) : WellFormedDict(c.v[i])

WellFormedPayload(content) ==
    /\ ~IsNone(content)
    /\ \/ IsNone(content.children)
       \/ \A i \in 1..Len(content.children.v) : WellFormedDict(content.children.v[i])

\* the node a well-formed payload describes
RECURSIVE NodeOfDict(_)
NodeOfDict(d) ==
    LET c == Get(d, "children", None)
    IN KnowledgeNode(Get(d, "title", None).v, Get(d, "content", None).v,
                     IF c.t = "list" /\ Len(c.v) > 0
                     THEN List([i \in 1..Len(c.v) |-> NodeOfDict(c.v[i])])
                     ELSE None)

NodeOfPayload(content) ==
    KnowledgeNode(content.title, content.content,
                  IF ~IsNone(content.children) /\ Len(content.children.v) > 0
                  THEN List([i \in 1..Len(content.children.v) |-> NodeOfDict(content.children.v[i])])
                  ELSE None)

IsOp(action) == last_op.t = "op" /\ last_op.operation.action = action

----------------------------------------------------------------------------
(* Claims on the patch engine, under SpecPatch *)

\* C5: patching never mutates its input. At every moment of and after a call of
\* modify_knowledge_tree or append_knowledge_node, the tree object passed in holds
\* what it held when the call began; the changes are in the returned copy only.
C5_InputNeverMutated ==
    last_call.kind # "none" => heap[last_call.arg] = last_call.before

\* an append_knowledge_node call has returned a copy that differs from its input,
\* after a modify_knowledge_tree call that changed its own copy
C5_Witness ==
    /\ last_call.kind = "append"
    /\ heap[last_call.result] # last_call.before
    /\ heap[last_call.arg] = last_call.before
    /\ modification_count > 0
    /\ \E r \in 1..Len(heap) : IsRootForm(heap[r]) /\ heap[r] # heap[1]

\* C6: a del whose path names an existing child, at any depth, removes exactly that
\* child with its subtree and keeps all other nodes in their order.
C6_DeleteRemovesAddressedChild ==
    IsOp("del") =>
        \A addr \in Addresses(last_op.before.root) \ {<<>>} :
            last_op.operation.path = PathOfAddress(addr) =>
                /\ ~last_op.raised
                /\ last_op.after = KnowledgeTree(Prune(last_op.before.root, addr))

\* C7: an add whose path names the children collection of an existing node P, with a
\* payload that describes a node, makes that node the last child of P: P has one
\* child more, the earlier children keep their order, nothing else changes.
C7_AddAppendsLastChild ==
    (IsOp("add") /\ WellFormedPayload(last_op.operation.content)) =>
        \A addr \in Addresses(last_op.before.root) :
            last_op.operation.path = ChildrenOf(PathOfAddress(addr)) =>
                /\ ~last_op.raised
                /\ last_op.after = KnowledgeTree(
                      Graft(last_op.before.root, addr, NodeOfPayload(last_op.operation.content)))

\* an add below the root, to a node that had children, has been executed
C7_Witness ==
    /\ IsOp("add")
    /\ WellFormedPayload(last_op.operation.content)
    /\ ~last_op.raised
    /\ \E addr \in Addresses(last_op.before.root) :
          /\ Len(addr) >= 1
          /\ last_op.operation.path = ChildrenOf(PathOfAddress(addr))
          /\ Len(Kids(NodeAt(last_op.before.root, addr))) >= 2
          /\ Len(Kids(NodeAt(last_op.after.root, addr))) >= 3

\* the operations of the list that were not logged as failed, in their order
Remaining(modification_list, log) ==
    LET failed == {log[k].operation : k \in 1..Len(log)}
        IsKept(i) == i \notin failed
        kept == SelectSeq([i \in 1..Len(modification_list) |-> i], IsKept)
    IN [k \in 1..Len(kept) |-> modification_list[kept[k]]]

\* the operation failed while its payload was being turned into a node
PayloadFailure(entry) ==
    entry.error.msg \in {"Content must be a KnowledgeNodeContent or dictionary for node creation",
                         "KnowledgeNode: Input should be a valid string"}

NotNone(operation) == operation.action # "none"

\* C8: the operations of a batch are applied independently. A del whose last index is
\* out of range is skipped and logged, leaving the tree as it was. When
\* modify_knowledge_tree returns, every operation other than 'none' has been executed or
\* logged as failed, and - as long as no failure came from a payload that describes no
\* node - the returned tree is what the operations that did not fail, applied in their
\* order to a copy of the input, produce.
C8_FailedOperationsAreSkipped ==
    /\ IsOp("del") =>
          \A addr \in Addresses(last_op.before.root) :
              \A k \in (Len(Kids(NodeAt(last_op.before.root, addr))) + 1)..Len(DigitChars) :
                  last_op.operation.path = PathOfAddress(addr \o <<k>>) =>
                      last_op.raised /\ last_op.after = last_op.before
    /\ (last_call.kind = "modify" /\ last_call.returned
          /\ \A k \in 1..Len(error_log) : ~PayloadFailure(error_log[k])) =>
          /\ modification_count + Len(error_log) = Len(SelectSeq(last_call.input, NotNone))
          /\ \E ref \in {RunModifications(Remaining(last_call.input, error_log), last_call.before)} :
                /\ ref.error_log = <<>>
                /\ ref.tree = heap[last_call.result]

\* C9: a modify whose path names a whole node (no attribute) replaces the title, the
\* content and the children of that node by those of the payload.
C9_ModifyReplacesWholeNode ==
    (IsOp("modify") /\ WellFormedPayload(last_op.operation.content)) =>
        \A addr \in Addresses(last_op.before.root) \ {<<>>} :
            last_op.operation.path = PathOfAddress(addr) =>
                /\ ~last_op.raised
                /\ NodeAt(last_op.after.root, addr) = NodeOfPayload(last_op.operation.content)

\* C10: a modify whose path ends in .title (.content) sets that attribute of the node
\* to the title (content) of the payload and changes nothing else.
C10_ModifySetsOneAttribute ==
    (IsOp("modify") /\ WellFormedPayload(last_op.operation.content)) =>
        \A addr \in Addresses(last_op.before.root) \ {<<>>} :
            /\ last_op.operation.path = Dotted(PathOfAddress(addr), title_s) =>
                  /\ ~last_op.raised
                  /\ last_op.after = KnowledgeTree(SetNodeAt(last_op.before.root, addr,
                        [NodeAt(last_op.before.root, addr)
                            EXCEPT !.title = last_op.operation.content.title]))
            /\ last_op.operation.path = Dotted(PathOfAddress(addr), content_s) =>
                  /\ ~last_op.raised
                  /\ last_op.after = KnowledgeTree(SetNodeAt(last_op.before.root, addr,
                        [NodeAt(last_op.before.root, addr)
                            EXCEPT !.content = last_op.operation.content.content]))

----------------------------------------------------------------------------
(* Claims on the evaluation loop, under SpecEval *)

\* C1: the loop returns only after exactly eva_k_times consecutive evaluations whose
\* status is complete, that is, the last eva_k_times evaluations are complete and the
\* one before them is not; and after every evaluation whose status is incomplete the
\* counter of clean passes is 0.
C1_ConvergedAfterCleanPasses ==
    /\ eva_pc = "returned" =>
          /\ Len(history) >= eva_k_times
          /\ \A i \in (Len(history) - eva_k_times + 1)..Len(history) :
                history[i].status = "complete"
          /\ (eva_k_times > 0 /\ Len(history) > eva_k_times) =>
                history[Len(history) - eva_k_times].status = "incomplete"
    /\ (history # <<>> /\ history[Len(history)].status = "incomplete") => complete_count = 0

\* C2: the loop has a hard cap on its iterations: once the longest run followed here,
\* MaxEvals evaluations, has been made, the loop has ended or ends without asking for
\* another evaluation, whatever the evaluator answered.
C2_LoopHasIterationCap ==
    Len(history) >= MaxEvals => (eva_pc # "loop" \/ complete_count >= eva_k_times)

----------------------------------------------------------------------------
(* Claims on the backend fallback, under SpecLlm *)

\* a list of n >= 1 backends, each with its parameter section
Configured(c) ==
    /\ c.has_key /\ c.is_list
    /\ Len(c.names) >= 1
    /\ c.sections = {c.names[i] : i \in 1..Len(c.names)}

\* C3: over n >= 1 configured backends, the backends are attempted in order 0, 1, 2, ...
\* once each; the call returns the result of the first backend that does not raise,
\* after index + 1 attempts; it raises only when all n backends have failed, and then
\* the error that the last backend raised.
C3_FallbackInOrder ==
    Configured(setup) =>
        /\ \A i \in 1..Len(attempts) : attempts[i].backend = i - 1
        /\ \A i \in 1..(Len(attempts) - 1) : attempts[i].outcome # "result"
        /\ llm_pc = "returned" =>
              /\ attempts # <<>>
              /\ attempts[Len(attempts)].outcome = "result"
              /\ outcome = [t |-> "result", backend |-> Len(attempts) - 1]
        /\ llm_pc = "raised" =>
              /\ Len(attempts) = Len(setup.names)
              /\ attempts[Len(attempts)].outcome # "result"
              /\ outcome = Error(attempts[Len(attempts)].outcome, Len(setup.names) - 1)

\* C4: exhaustion is told apart from the failure of a backend: a failure raised while
\* backend i executes, whatever its kind, is not taken for exhaustion, so the call gives
\* up only when the index asked for is past the end of the list, every backend that is
\* configured having been attempted.
C4_ExhaustionOnlyPastTheEnd ==
    llm_pc = "raised" =>
        \A i \in 1..Len(setup.names) :
            setup.names[i] \in setup.sections =>
                \E k \in 1..Len(attempts) : attempts[k].backend = i - 1

----------------------------------------------------------------------------
(* Claims on the statistics of the patch engine, under SpecPatch *)

\* the numbers of the operations of the call whose execution raised
FailedOperations == last_call.failed

\* C11: after modify_knowledge_tree has returned, get_modification_stats describes that
\* call only: total_modifications is the number of operations other than 'none' that
\* did not raise, errors holds one entry for each operation that raised, in their
\* order, and success is true exactly when errors is empty.
C11_StatsDescribeTheCall ==
    (last_call.kind = "modify" /\ last_call.returned) =>
        \E stats \in {GetModificationStats(modification_count, error_log)},
           failed \in {FailedOperations} :
            /\ stats.total_modifications =
                  Cardinality({i \in 1..Len(last_call.input) :
                                  last_call.input[i].action # "none"} \ failed)
            /\ Len(stats.errors) = Cardinality(failed)
            /\ {stats.errors[k].operation : k \in 1..Len(stats.errors)} = failed
            /\ \A k \in 1..(Len(stats.errors) - 1) :
                  stats.errors[k].operation < stats.errors[k + 1].operation
            /\ stats.success <=> (stats.errors = <<>>)
            /\ stats.success <=> (failed = {})

\* a second call has returned with one failure and no success, after a call that
\* changed its copy
C11_Witness ==
    /\ last_call.kind = "modify" /\ last_call.returned
    /\ calls >= 2
    /\ modification_count = 0
    /\ Len(error_log) = 1
    /\ ~GetModificationStats(modification_count, error_log).success
    /\ \E r \in 1..Len(heap) :
          r # last_call.result /\ IsRootForm(heap[r]) /\ heap[r] \notin InputTrees

----------------------------------------------------------------------------
(* Claims on chunk generation, under SpecChunk *)

\* C12: every chunk that gen_knowledge_chunk returns is a faithful excerpt of the
\* source: contains_match(chunk.content, source_doc) is true.
C12_ReturnedChunksAreExcerpts ==
    chunk_pc = "returned" =>
        \A k \in 1..Len(chunk_list) : ContainsMatch(chunk_list[k].content, SourceDoc)

\* C13: the reconciliation loop of a chunk is bounded: once the longest run followed
\* here, MaxRounds failed match/judge rounds on one chunk, has been made, the loop on
\* that chunk has ended, or ends without a further round because the content matches.
C13_ReconciliationIsBounded ==
    rounds >= MaxRounds =>
        \/ chunk_pc # "check"
        \/ ContainsMatch(chunk_list[chunk_at].content, SourceDoc)

\* a precedes b in depth-first document order: a is an ancestor of b, or the two
\* part at a child with a smaller index on the side of a
Before(a, b) ==
    \E k \in 1..Len(b) :
        /\ k <= Len(a) + 1
        /\ SubSeq(a, 1, k - 1) = SubSeq(b, 1, k - 1)
        /\ k = Len(a) + 1 \/ a[k] < b[k]

\* the addresses of S in depth-first document order
RECURSIVE InDocumentOrder(_)
InDocumentOrder(S) ==
    IF S = {} THEN <<>>
    ELSE LET first == CHOOSE a \in S : \A b \in S \ {a} : Before(a, b)
         IN <<first>> \o InDocumentOrder(S \ {first})

\* the titles on the way from below the top of the tree down to the node at addr
TitlesTo(k_tree, addr) == [i \in 1..Len(addr) |-> NodeAt(k_tree, SubSeq(addr, 1, i)).title]

\* the addresses of the nodes below the top of the tree that have no children
LeafAddresses(k_tree) ==
    {a \in Addresses(k_tree) \ {<<>>} : Kids(NodeAt(k_tree, a)) = <<>>}

\* C14: init_chunk_list yields one chunk for every node of the tree without children
\* and none for a node with children, in depth-first document order; the chunk has the
\* title and the content of the node, full_path the titles on the way down to the
\* node, parent_path the same without the node's own title.  (The nodes are those
\* below the top of the tree; the chunks keep their number, order, titles and paths
\* until gen_knowledge_chunk returns.)
C14_OneChunkPerLeaf ==
    chunk_pc \in {"recorrect", "check", "returned", "raised"} =>
        \E leaves \in {InDocumentOrder(LeafAddresses(knowledge_trees))} :
            /\ Len(chunk_list) = Len(leaves)
            /\ \A k \in 1..Len(leaves) :
                  /\ chunk_list[k].title = NodeAt(knowledge_trees, leaves[k]).title
                  /\ chunk_list[k].metadata.full_path = TitlesTo(knowledge_trees, leaves[k])
                  /\ chunk_list[k].metadata.parent_path =
                        TitlesTo(knowledge_trees, SubSeq(leaves[k], 1, Len(leaves[k]) - 1))
                  /\ (chunk_pc = "recorrect" /\ chunk_at = 1) =>
                        chunk_list[k].content = NodeAt(knowledge_trees, leaves[k]).content

\* the chunks of a tree with leaves at depth one and two, one of them with an empty
\* list of children, have just been listed
C14_Witness ==
    /\ chunk_pc = "recorrect" /\ chunk_at = 1
    /\ Len(chunk_list) = 3
    /\ \E k \in 1..3 : Len(chunk_list[k].metadata.full_path) = 2
    /\ \E k \in 1..3 : Len(chunk_list[k].metadata.full_path) = 1
    /\ \E a \in LeafAddresses(knowledge_trees) :
          NodeAt(knowledge_trees, a).children = List(<<>>)
    /\ \E a \in Addresses(knowledge_trees) \ {<<>>} : Kids(NodeAt(knowledge_trees, a)) # <<>>

----------------------------------------------------------------------------
(* Claims on the store stage, under SpecStore *)

\* the entries of the collection tagged with a source file, in insertion order
Tagged(documents, source_file) ==
    LET IsOfFile(doc) == doc.source_file = source_file
    IN SelectSeq(documents, IsOfFile)

\* the documents the call of process p creates from its chunks
DocumentsOfRun(p) ==
    IF db_run[p].manager = "general"
    THEN CreateDocuments([k \in 1..Len(db_run[p].contents) |->
                            Chunk(db_run[p].file, db_run[p].contents[k])])
    ELSE CreateDocumentsFromChunks(
             [k \in 1..Len(db_run[p].contents) |->
                KnowledgeChunk("Title", db_run[p].contents[k], [source_file |-> db_run[p].file])],
             db_run[p].file)

\* the call of p is the last one begun, and no other call ran during it
LatestAlone(p) ==
    /\ db_run[p].pc # "idle"
    /\ db_run[p].alone
    /\ \A q \in Runs : q > p => db_run[q].pc = "idle"

\* embed_documents was called by p and has ended
EmbedEnded(p) == db_run[p].documents # <<>> /\ db_run[p].pc \in {"returned", "raised"}

RECURSIVE Flatten(_)
Flatten(lists) == IF lists = <<>> THEN <<>> ELSE Head(lists) \o Flatten(Tail(lists))

\* two entries of the collection stand for the same chunk of the same file
HasDuplicates ==
    \E i, j \in 1..Len(store) :
        /\ i < j
        /\ store[i].source_file = store[j].source_file
        /\ store[i].chunk_index = store[j].chunk_index

\* C15: ingestion is a full replace per source file: after a successful call of
\* VectorDBManager.process_state_to_vectordb (app_RAG_general) that ran alone, the
\* entries of the collection tagged with the file are exactly the documents that
\* call created.
C15_FullReplacePerFile ==
    \A p \in Runs :
        (db_run[p].manager = "general" /\ db_run[p].pc = "returned" /\ LatestAlone(p))
            => Tagged(store, db_run[p].file) = DocumentsOfRun(p)

\* C16: ingesting the same source file twice through create_chunks_node leaves
\* exactly the documents of one ingestion in the collection, not twice as many.
C16_ReingestDoesNotDouble ==
    (/\ \A p \in 1..2 : db_run[p].manager = "state" /\ db_run[p].pc = "returned"
                        /\ db_run[p].alone
     /\ db_run[1].file = db_run[2].file
     /\ db_run[1].contents = db_run[2].contents
     /\ \A q \in Runs : q > 2 => db_run[q].pc = "idle")
        => Len(Tagged(store, db_run[2].file)) = Len(DocumentsOfRun(2))

\* C17: embed_documents takes the documents in consecutive batches of batch_size;
\* success_count + error_count is the number of documents taken so far, and at the
\* end the number of documents; error_count is the number of documents whose
\* individual retry failed; it raises exactly when error_count > 0.
C17_EmbedCountsAddUp ==
    \A p \in Runs :
        /\ Embedding(p) =>
              LET taken == IF db_run[p].i < Len(db_run[p].documents)
                           THEN db_run[p].i ELSE Len(db_run[p].documents)
              IN /\ db_run[p].success_count + db_run[p].error_count = taken
                 /\ Flatten(db_run[p].batches) = SubSeq(db_run[p].documents, 1, taken)
        /\ EmbedEnded(p) =>
              /\ db_run[p].success_count + db_run[p].error_count = Len(db_run[p].documents)
              /\ db_run[p].error_count = db_run[p].failed
              /\ db_run[p].pc = "raised" <=> db_run[p].error_count > 0
              /\ Flatten(db_run[p].batches) = db_run[p].documents
              /\ \A k \in 1..Len(db_run[p].batches) :
                    /\ Len(db_run[p].batches[k]) <= batch_size
                    /\ k < Len(db_run[p].batches) => Len(db_run[p].batches[k]) = batch_size

\* a batch of two failed; retried one by one, one document went in and one did not
C17_Witness ==
    \E p \in Runs :
        /\ EmbedEnded(p)
        /\ db_run[p].pc = "raised"
        /\ Len(db_run[p].batches) = 1
        /\ Len(db_run[p].documents) = 2
        /\ db_run[p].success_count = 1
        /\ db_run[p].error_count = 1

\* C18: ingestion of a file is not atomic.  Calls of process_state_to_vectordb
\* (app_RAG_general) that run one after the other never leave two entries for the
\* same chunk of a file; duplicates arise only when a call ran during another, and
\* then they can arise.
C18_DuplicatesOnlyByInterleaving ==
    ((\A p \in Runs : db_run[p].manager \in {"general", "none"}) /\ HasDuplicates)
        => \E p \in Runs : ~db_run[p].alone

\* two interleaved calls for the same file and chunks both succeeded, and the
\* collection holds every document twice
C18_Witness ==
    /\ \A p \in 1..2 : db_run[p].manager = "general" /\ db_run[p].pc = "returned"
                       /\ db_run[p].documents # <<>>
    /\ db_run[1].file = db_run[2].file
    /\ db_run[1].contents = db_run[2].contents
    /\ HasDuplicates
    /\ Len(Tagged(store, db_run[1].file)) = 2 * Len(db_run[1].documents)

----------------------------------------------------------------------------
(* Claims on the pipeline and the folder driver, under SpecFolder *)

\* C19: gen_chunk_graph(file) returns true exactly when the document was read,
\* extracted, evaluated, chunked and stored without error, and false otherwise.
C19_TrueIffEveryStageSucceeded ==
    \A k \in 1..Len(processed) :
        processed[k].result.t = "returned" =>
            (processed[k].result.v
                <=> (processed[k].last_node = "create_chunks" /\ processed[k].stored))

\* C20: a fatal error on one document aborts only that document: process_file is
\* called once for every file of the list, one at a time, in list order, whatever
\* happened to the files before; when the directory is done, every file was taken.
C20_EveryFileProcessedInOrder ==
    /\ Len(process_file_calls) <= Len(files)
    /\ process_file_calls = SubSeq(files, 1, Len(process_file_calls))
    /\ Len(processed) <= Len(process_file_calls)
    /\ Len(process_file_calls) <= Len(processed) + 1
    /\ \A k \in 1..Len(processed) : processed[k].file = files[k]
    /\ node_name = "done" => (process_file_calls = files /\ Len(processed) = Len(files))

\* the first file failed before the store node, the next went through every node
C20_Witness ==
    /\ node_name = "done"
    /\ Len(files) >= 2
    /\ processed[1].result = GotResult(FALSE)
    /\ processed[1].last_node # "create_chunks"
    /\ processed[2].last_node = "create_chunks"
    /\ processed[2].stored
    /\ process_file_calls = files

----------------------------------------------------------------------------
(* Claims on the run of one document, under SpecRun *)

\* the run is over and nothing raised: the chunks were returned and
\* process_state_to_vectordb returned
RunSucceeded == chunk_pc = "returned" /\ db_run[1].pc = "returned"

\* the documents the run added to the collection, when earlier is what it held before
WrittenAfter(earlier) == SubSeq(store, Len(earlier) + 1, Len(store))

\* the collection is one of the collections of before with documents added behind
HeldBefore(earlier) ==
    Len(earlier) <= Len(store) /\ SubSeq(store, 1, Len(earlier)) = earlier

\* the chunks that have a title and a content
FilledChunks == {i \in 1..Len(chunk_list) :
                    Len(chunk_list[i].title) > 0 /\ Len(chunk_list[i].content) > 0}

----------------------------------------------------------------------------
(* Claims on format-insensitive matching, under SpecMatch *)

\* the characters left out when texts are compared: white space, punctuation,
\* Markdown marks
Ignorable(c) == c \in {" ", "*", "_", "#", ".", ","}

\* the lower-case form of a letter
Lower(c) == IF c = "A" THEN "a" ELSE IF c = "B" THEN "b" ELSE c

\* a text without its ignorable characters, in lower case
RECURSIVE Normalized(_)
Normalized(text) ==
    IF text = <<>> THEN <<>>
    ELSE (IF Ignorable(Head(text)) THEN <<>> ELSE <<Lower(Head(text))>>)
         \o Normalized(Tail(text))

\* part occurs in whole as a run of consecutive characters
OccursIn(part, whole) ==
    \E from \in 1..(Len(whole) + 1) :
        /\ from + Len(part) - 1 <= Len(whole)
        /\ \A k \in 1..Len(part) : whole[from + k - 1] = part[k]

\* C22: contains_match(target, document) is true exactly when the normalized target
\* (ignorable characters removed, then casefolded) is a contiguous substring of the
\* normalized document; a target whose normalized form is empty matches every
\* document.
C22_MatchIsNormalizedContainment ==
    match_pc = "returned" =>
        /\ match_answer <=> OccursIn(Normalized(match_target), Normalized(match_document))
        /\ Normalized(match_target) = <<>> => match_answer

\* a target that is not in the document as written, but is once marks, white space
\* and case are left out
C22_Witness ==
    /\ match_pc = "returned"
    /\ match_answer
    /\ Normalized(match_target) # <<>>
    /\ Normalized(match_target) # match_target
    /\ ~OccursIn(match_target, match_document)
    /\ \E k \in 1..Len(match_document) : match_document[k] = "A"


----------------------------------------------------------------------------
(* Claims on the stages that call a model, under SpecStage *)

\* the backends that the entry of the stage configures, as indices of the list
ConfiguredBackends(c) ==
    IF ~c.has_key THEN {}
    ELSE {i \in 0..(Len(c.names) - 1) : c.names[i + 1] \in c.sections}

\* the backends that the stage has invoked
Attempted == {attempts[k].backend : k \in 1..Len(attempts)}

\* a backend raised an IndexError of its own (the fallback takes it for exhaustion)
BackendRaisedIndexError == \E k \in 1..Len(attempts) : attempts[k].outcome = "IndexError"

\* C23: every stage that calls a model (tree extraction, completeness evaluation, chunk
\* metadata, chunk recorrection, chunk judging) falls back over the backends its entry
\* configures: the stage fails only when no configured backend remains untried.
C23_EveryStageFallsBack ==
    (llm_pc = "raised" /\ ~BackendRaisedIndexError) =>
        ConfiguredBackends(setup) \subseteq Attempted

\* the same statement for the metadata stage alone
MetadataStageFallsBack ==
    (stage = "gen_metadata_llm" /\ llm_pc = "raised" /\ ~BackendRaisedIndexError) =>
        ConfiguredBackends(setup) \subseteq Attempted


----------------------------------------------------------------------------
(* Claims on configuration errors in the backend fallback, under SpecLlm *)

\* get_llm_from_list finds the entry of graph_config or the parameter section of the
\* backend missing from setup.yaml
ConfigurationMissing ==
    LET llm == GetLlmFromList(setup, seq)
    IN ~llm.ok /\ llm.kind = "KeyError"

\* C24: a configuration entry that is missing (the key of the backend list, or the
\* parameter section of a backend) is fatal: the call raises that configuration error
\* at once; it is not counted as the failure of a backend and no further backend is
\* tried.
C24_ConfigurationErrorIsFatal ==
    [][(llm_pc = "loop" /\ ConfigurationMissing) =>
          /\ llm_pc' = "raised"
          /\ outcome' = Error("KeyError", "get_llm_from_list")
          /\ seq' = seq
          /\ attempts' = attempts]_vars


----------------------------------------------------------------------------
(* Claims on the embedding request, under SpecRequest *)

\* the responses that were failures: another status than 200, or an exception
Failures == {i \in 1..Len(responses) : responses[i] # "200"}

\* C25: _make_request sends at most max_retries requests; it returns on the first
\* response with status 200; after the failure of attempt number a (from 0) it waits
\* 2^a seconds (1, 2, 4, ...) before the next attempt and does not wait after the
\* last one; it raises when all max_retries attempts have failed.
C25_RetryWithBackoff ==
    /\ Len(responses) <= max_retries
    /\ \A i \in 1..(Len(responses) - 1) : responses[i] # "200"
    /\ request_pc = "returned" <=> (responses # <<>> /\ responses[Len(responses)] = "200")
    /\ request_pc = "raised" => (Len(responses) = max_retries /\ Cardinality(Failures) = max_retries)
    /\ \E waits \in {IF Cardinality(Failures) < max_retries
                     THEN Cardinality(Failures) ELSE max_retries - 1} :
           /\ request_pc = "loop" => Len(sleeps) = (IF waits < 0 THEN 0 ELSE waits)
           /\ request_pc = "returned" => Len(sleeps) = Len(responses) - 1
           /\ request_pc = "raised" => Len(sleeps) = (IF waits < 0 THEN 0 ELSE waits)
    /\ \A i \in 1..Len(sleeps) : sleeps[i] = 2 ^ (i - 1)

\* all of three attempts failed: two waits, of 1 and 2 seconds, and the exception
C25_Witness ==
    /\ request_pc = "raised"
    /\ max_retries = 3
    /\ Len(responses) = 3
    /\ sleeps = <<1, 2>>


----------------------------------------------------------------------------
(* Claims on the shape of the patched trees, under SpecPatch *)

\* no node from `node` down holds a children list that is empty
RECURSIVE NoEmptyChildren(_)
NoEmptyChildren(node) ==
    \/ IsNone(node.children)
    \/ /\ Len(node.children.v) > 0
       /\ \A i \in 1..Len(node.children.v) : NoEmptyChildren(node.children.v[i])

RootNode(tree) == IF IsRootForm(tree) THEN tree.root ELSE tree

\* C26: leaf <=> children absent is kept by patching: the input trees hold no empty
\* children list, and after any add and del operations of the modifier and any calls
\* of append_knowledge_node no node of a resulting tree holds an empty children list
\* (a node whose only child was deleted has its children absent).
C26_NoEmptyChildrenList ==
    \A r \in 1..Len(heap) : NoEmptyChildren(RootNode(heap[r]))


----------------------------------------------------------------------------
(* Claims on the errors of path resolution, under SpecPatch *)

\* the faults of an index part that _get_node_by_path finds on the tree, by the
\* message of the ValueError raised where the fault is found
IndexFaults == {"Invalid path: index out of range", "Node has no children to access index"}

\* C27: _get_node_by_path reports distinct errors for distinct faults: an index outside
\* 0..len-1 (a negative one included) raises a ValueError that reports 'out of range'
\* with the valid range, an index into a node without children one that reports 'Node
\* has no children', and only an index that is no integer one that reports 'Invalid
\* index format'.
C27_DistinctPathErrors ==
    \A k \in 1..Len(error_log) :
        LET e == error_log[k].error
        IN e.cause \in IndexFaults => e.msg = e.cause


----------------------------------------------------------------------------
(* Claims on append_knowledge_node, under SpecPatch *)

\* new_node is the last child of the node at addr
IsLastChildAt(tree, addr, new_node) ==
    LET kids == Kids(NodeAt(tree, addr))
    IN Len(kids) > 0 /\ kids[Len(kids)] = new_node

\* C28: append_knowledge_node(tree, target_path, new_node) adds new_node as a child of
\* the node that target_path addresses by titles from the root, creating the nodes
\* that are missing on the way: in the returned tree new_node is a child of a node
\* that bears the title of the last segment of target_path.
C28_AppendedUnderLastSegment ==
    (last_call.kind = "append" /\ last_call.input[1] # <<>>) =>
        \E tree \in {heap[last_call.result]} :
            \E addr \in Addresses(tree) :
                /\ NodeAt(tree, addr).title = last_call.input[1][Len(last_call.input[1])]
                /\ IsLastChildAt(tree, addr, last_call.input[2])


----------------------------------------------------------------------------
(* Claims on the order of the stages of one document, under SpecFolder *)

\* the stage that runs changes
StageBegins == node_name' # node_name /\ node_name' \in {Nodes[k] : k \in 1..Len(Nodes)}

\* create_chunks_node gives its output: process_state_to_vectordb has been called
StoreWriteEnds == node_output' # node_output /\ node_output' # None

\* C29: for one document the stages run in the order read file, tree extraction,
\* evaluation loop, chunk generation, vector-store write, each at most once: a stage
\* begins only when the stage before it has returned without raising (the first one
\* when the document is taken up), so the vector store is written only after all four
\* earlier stages succeeded, and never for a document one of whose stages failed.
C29_StagesInOrder ==
    [][/\ StageBegins =>
             IF node_name' = Nodes[1] THEN AtLoopHead
             ELSE \E k \in 1..(Len(Nodes) - 1) : node_name = Nodes[k] /\ node_name' = Nodes[k + 1]
       /\ StoreWriteEnds => (node_name = Nodes[Len(Nodes)] /\ node_output = None)
       /\ processed' # processed =>
             \E p \in {processed'[Len(processed')]} :
                 /\ p.last_node # Nodes[Len(Nodes)] => ~p.stored
                 /\ p.last_node \in {Nodes[k] : k \in 1..Len(Nodes)} => node_name = p.last_node]_vars

\* one document went through all five stages and was stored, another one failed in
\* the evaluation stage and was not
C29_Witness ==
    /\ \E i \in 1..Len(processed) :
          processed[i].last_node = "create_chunks" /\ processed[i].stored
    /\ \E i \in 1..Len(processed) :
          processed[i].last_node = "evaluate_knowledge" /\ ~processed[i].stored


----------------------------------------------------------------------------
(* Claims on the point of an incomplete evaluation, under SpecEval *)

\* the titles of the nodes on the way from below the root down to the node at addr
RECURSIVE TitlesBelow(_, _)
TitlesBelow(node, addr) ==
    IF addr = <<>> THEN <<>>
    ELSE <<Kids(node)[Head(addr)].title>> \o TitlesBelow(Kids(node)[Head(addr)], Tail(addr))

\* path names the node at addr by titles, with or without the title of the root
AddressedBy(tree, path, addr) ==
    path \in {TitlesBelow(tree, addr), <<tree.title>> \o TitlesBelow(tree, addr)}

\* the nodes of the tree that carry the title and the content of the point
Carrying(tree, point) ==
    {addr \in Addresses(tree) :
        NodeAt(tree, addr).title = point.title /\ NodeAt(tree, addr).content = point.content}

\* the evaluation that this step makes
LastEvaluation == history'[Len(history')]

\* C30: when an evaluation reports incomplete with a point, exactly one node that
\* carries point.title and point.content is added to the working tree, as a child of
\* the node that point.path addresses; the counter of clean passes becomes 0 and the
\* loop goes on, so that the next evaluation is made on the updated tree.
C30_PointAddedAtPath ==
    [][(history' # history /\ LastEvaluation.status = "incomplete"
            /\ LastEvaluation.point.t = "point") =>
          /\ Cardinality(Carrying(new_tree', LastEvaluation.point))
                = Cardinality(Carrying(new_tree, LastEvaluation.point)) + 1
          /\ \E addr \in Addresses(new_tree') :
                /\ AddressedBy(new_tree', LastEvaluation.point.path, addr)
                /\ IsLastChildAt(new_tree', addr,
                        KnowledgeNode(LastEvaluation.point.title, LastEvaluation.point.content, None))
          /\ complete_count' = 0
          /\ eva_pc' = "loop" /\ complete_count' < eva_k_times]_vars

\* the same for the points whose path names nodes that the tree holds
PointAddedAtExistingPath ==
    [][(history' # history /\ LastEvaluation.status = "incomplete"
            /\ LastEvaluation.point.t = "point"
            /\ \E addr \in Addresses(new_tree) :
                  AddressedBy(new_tree, LastEvaluation.point.path, addr)) =>
          /\ Cardinality(Carrying(new_tree', LastEvaluation.point))
                = Cardinality(Carrying(new_tree, LastEvaluation.point)) + 1
          /\ \E addr \in Addresses(new_tree') :
                /\ AddressedBy(new_tree', LastEvaluation.point.path, addr)
                /\ IsLastChildAt(new_tree', addr,
                        KnowledgeNode(LastEvaluation.point.title, LastEvaluation.point.content, None))
          /\ complete_count' = 0
          /\ eva_pc' = "loop" /\ complete_count' < eva_k_times]_vars


----------------------------------------------------------------------------
(* Claims on the reconciliation loop of a chunk, under SpecChunk *)

\* contains_match on the chunk at hand
MatcherPasses == ContainsMatch(chunk_list[chunk_at].content, SourceDoc)

\* the chunk at hand is finished by this step
ChunkFinished == accepted' # accepted

\* nothing of the list changes but the content of the chunk at hand
OnlyChunkAtHandChanges ==
    /\ Len(chunk_list') = Len(chunk_list)
    /\ \A k \in 1..Len(chunk_list) :
          /\ k # chunk_at => chunk_list'[k] = chunk_list[k]
          /\ chunk_list'[k].title = chunk_list[k].title
          /\ chunk_list'[k].metadata = chunk_list[k].metadata

\* C31: with reconciliation, each chunk gets the recorrection call once and then the
\* rounds: the matcher runs; when it fails the judge is called; when the judge answers
\* found = false the content is replaced by the corrected content and the matcher runs
\* again.  The loop of a chunk ends exactly when the matcher passes or the judge
\* answers found = true, and the chunks are taken one at a time in the order of the list.
C31_ReconciliationRounds ==
    [][(reconciling /\ chunk_pc \in {"recorrect", "check"}) =>
          /\ OnlyChunkAtHandChanges
          /\ chunk_at' \in {chunk_at, chunk_at + 1}
          /\ chunk_at' = chunk_at + 1 <=> ChunkFinished
          /\ chunk_pc = "recorrect" =>
                /\ ~ChunkFinished
                /\ chunk_pc' \in {"check", "raised", "returned"}
                /\ chunk_pc' = "returned" <=> chunk_at > Len(chunk_list)
          /\ chunk_pc = "check" =>
                /\ MatcherPasses =>
                      (accepted' = Append(accepted, "matched") /\ chunk_list' = chunk_list)
                /\ ChunkFinished =>
                      /\ chunk_pc' = "recorrect"
                      /\ chunk_list' = chunk_list
                      /\ accepted' = Append(accepted, IF MatcherPasses THEN "matched" ELSE "judged")
                /\ (~ChunkFinished /\ chunk_pc' = "check") =>
                      /\ ~MatcherPasses
                      /\ chunk_list'[chunk_at].content \in Answers]_vars

\* a chunk went through a round in which the judge corrected it, after another chunk
\* had been finished by the judge's found = true
C31_Witness ==
    /\ reconciling
    /\ chunk_pc = "check"
    /\ rounds = 1
    /\ accepted = <<"judged">>
    /\ chunk_at = 2


----------------------------------------------------------------------------
(* Claims on the termination of the backend fallback, under SpecLlm *)

\* C32: the fallback loop of add_metadata_2_chunk always ends: for every configuration
\* and every pattern of failures it makes at most one attempt on each configured
\* backend and then returns a result or raises, so the index it asks for never goes
\* beyond the first one past the end of the list of backends.
C32_FallbackTerminates ==
    /\ seq <= Len(setup.names)
    /\ Len(attempts) <= Len(setup.names)
    /\ \A i, j \in 1..Len(attempts) : i # j => attempts[i].backend # attempts[j].backend


----------------------------------------------------------------------------
(* Claims on run_eva_k_iterations, under SpecIter *)

\* the operations of the list that were executed (all but 'none'), by what became of
\* them on the copy, one after the other
RECURSIVE Outcomes(_, _)
Outcomes(tree, list) ==
    IF list = <<>> THEN <<>>
    ELSE IF Head(list).action = "none" THEN Outcomes(tree, Tail(list))
    ELSE LET done == ExecuteAction(tree, Head(list))
         IN <<done.status.ok>> \o Outcomes(done.tree, Tail(list))

SomeFailed(list_outcomes) == \E k \in 1..Len(list_outcomes) : ~list_outcomes[k]
SomeSucceeded(list_outcomes) == \E k \in 1..Len(list_outcomes) : list_outcomes[k]

\* C33: state.knowledge_trees is replaced only by the tree of a modification list all
\* of whose operations succeeded; when an operation of the list failed the patched
\* copy is discarded, and when another operation of that list succeeded the iteration
\* is repeated, the counter i staying as it is.
C33_OnlyCleanBatchesReplaceTheTree ==
    [][iter_runs' # iter_runs =>
          \E done \in {Outcomes(state_tree, last_batch'.list)} :
             /\ last_batch'.before = state_tree
             /\ state_tree' # state_tree => (~SomeFailed(done) /\ state_tree' = last_batch'.tree)
             /\ ~SomeFailed(done) => (state_tree' = last_batch'.tree /\ iter_i' = iter_i + 1)
             /\ SomeFailed(done) => state_tree' = state_tree
             /\ (SomeFailed(done) /\ SomeSucceeded(done)) => iter_i' = iter_i
             /\ (SomeFailed(done) /\ ~SomeSucceeded(done)) => iter_i' = iter_i + 1]_vars

\* a list with one operation that succeeded and one that failed has been applied: the
\* tree of the state and the counter are as before, the patched copy differs
C33_Witness ==
    /\ last_batch # None
    /\ last_batch.stats.total_modifications = 1
    /\ Len(last_batch.stats.errors) = 1
    /\ last_batch.tree # last_batch.before
    /\ state_tree = last_batch.before
    /\ iter_i = 0 /\ iter_runs = 1


----------------------------------------------------------------------------
(* C34: the folder run of app_RAG_general after a file that failed *)

\* the paths gen_single_file_chunks has been called with
IngestedPaths == {ingested[k].path : k \in 1..Len(ingested)}

\* the folder run is over, by its return or by the end of the process
FolderRunOver == is_dir /\ walk_pc \in {"done", "exited"}

\* C34: a failure while ingesting one file (a read, chunking, metadata or vector-store
\* error inside gen_single_file_chunks) does not stop the folder run: when the run is
\* over, gen_single_file_chunks has been called with every supported file of the folder
C34_FailedFileDoesNotStopTheRun ==
    FolderRunOver => \A i \in 1..Len(walk) : IsSupported(walk[i]) => walk[i] \in IngestedPaths

----------------------------------------------------------------------------
(* C36: the delete step of an ingestion and the entries of other files *)

\* the file the next gen_single_file_chunks call is for
FileAtHand == walk[walk_at]

\* C36: ingesting one file never deletes entries of the collection that were ingested
\* from a different file path: every entry that came from another path than the file
\* at hand is still in the collection after the call
C36_OtherPathsKeepTheirEntries ==
    [][ (walk_pc = "loop" /\ walk_at <= Len(walk))
        => \A i \in 1..Len(collection) :
              collection[i].path # FileAtHand
              => \E j \in 1..Len(collection') : collection'[j] = collection[i] ]_vars


----------------------------------------------------------------------------
(* C35: the leaves of a tree across append_knowledge_node, under SpecPatch *)

\* the chunks init_chunk_list makes of a tree, as a set
ChunksOf(tree) ==
    {InitChunkList(tree, SourceFile)[k] : k \in 1..Len(InitChunkList(tree, SourceFile))}

\* C35: append_knowledge_node never turns an existing leaf into a non-leaf: every
\* chunk that the tree yields before the patch is still yielded by the returned tree
C35_LeavesStayLeaves ==
    last_call.kind = "append" => ChunksOf(last_call.before) \subseteq ChunksOf(heap[last_call.result])


----------------------------------------------------------------------------
(* C37: the content of the chunks the reconciliation loop has finished, under SpecChunk *)

\* C37: a chunk accepted by the reconciliation loop never has empty content: the loop
\* does not finish a chunk whose content is empty or made of ignored characters only
C37_AcceptedChunksHaveContent ==
    reconciling => \A k \in 1..Len(accepted) : CleanText(chunk_list[k].content) # <<>>


----------------------------------------------------------------------------
(* C38: the backends whose answer run_app yields, under SpecChat *)

\* C38: the answer text delivered to the caller comes from a single backend: whenever
\* a backend has failed and the next one is tried, no piece of the answer of the
\* failed backend has been yielded to the caller
C38_AnswerFromOneBackend ==
    \A k \in 1..Len(yielded) : yielded[k].kind = "token" => yielded[k].backend >= chat_seq


====
